---- MODULE Spec2Model ----
(***************************************************************************)
(* Model of nt8_status_complete.py: the NinjaTrader 8 strategy status      *)
(* watcher.  Text is modelled character by character (a string is a        *)
(* sequence of one-character strings) so that lower-casing, regular        *)
(* expression search, trimming and the case-sensitive instrument           *)
(* validators are computed as the code computes them.                      *)
(***************************************************************************)
EXTENDS Integers, Sequences, FiniteSets, TLC

\* ------------------------------------------------------------------------
\* Characters and strings
\* ------------------------------------------------------------------------
UpperSeq ==
  <<"A","B","C","D","E","F","G","H","I","J","K","L","M",
    "N","O","P","Q","R","S","T","U","V","W","X","Y","Z">>

LowerSeq ==
  <<"a","b","c","d","e","f","g","h","i","j","k","l","m",
    "n","o","p","q","r","s","t","u","v","w","x","y","z">>

DigitSeq == <<"0","1","2","3","4","5","6","7","8","9">>

\* The characters of the model in increasing code point order (ASCII).
AsciiOrder ==
  <<" ", "#", "'", "(", ")", ",", "-", ".", "/">> \o DigitSeq \o
  <<":", ";">> \o UpperSeq \o <<"[", "]", "_">> \o LowerSeq

Range(s) == { s[i] : i \in 1..Len(s) }

Upper == Range(UpperSeq)
Lower == Range(LowerSeq)
Digit == Range(DigitSeq)
AnyChar == Range(AsciiOrder)

\* Code point order of a character: its position in AsciiOrder.
Code(c) == CHOOSE i \in 1..Len(AsciiOrder) : AsciiOrder[i] = c

IndexIn(s, c) == CHOOSE i \in 1..Len(s) : s[i] = c

\* str.lower() / str.upper() on one character.
LowerChar(c) == IF c \in Upper THEN LowerSeq[IndexIn(UpperSeq, c)] ELSE c
UpperChar(c) == IF c \in Lower THEN UpperSeq[IndexIn(LowerSeq, c)] ELSE c

\* str.lower()
StrLower(s) == [i \in 1..Len(s) |-> LowerChar(s[i])]

\* s[a..b] (1-based, inclusive); empty when b < a.
Slice(s, a, b) == [k \in 1..(b - a + 1) |-> s[a + k - 1]]

\* ------------------------------------------------------------------------
\* Regular expressions (the subset of Python's re that the patterns use)
\* ------------------------------------------------------------------------
\* \s, \w, \d and the character sets of the patterns.
Space == {" "}
Word == Upper \cup Lower \cup Digit \cup {"_"}
UpAlnum == Upper \cup Digit                       \* [A-Z0-9]
NameChars == Upper \cup Lower \cup Digit \cup {"_", "-", "."}  \* [A-Za-z0-9_\-\.]
ConnChars == Word \cup Space \cup {"-", ".", "#"}  \* [\w\s\-\.\#]
NotQuote == AnyChar \ {"'"}                       \* [^']

NoItems == << >>

Item(op, s, cls, lo, hi, unb, name, sub, alts) ==
  [op |-> op, s |-> s, cls |-> cls, lo |-> lo, hi |-> hi, unb |-> unb,
   name |-> name, sub |-> sub, alts |-> alts]

Lit(s)          == Item("lit", s, {}, 0, 0, FALSE, "", NoItems, NoItems)
Rep(cls, lo, hi) == Item("cls", << >>, cls, lo, hi, FALSE, "", NoItems, NoItems)
Plus(cls)       == Item("cls", << >>, cls, 1, 0, TRUE, "", NoItems, NoItems)
LazyAny         == Item("lazy", << >>, AnyChar, 0, 0, TRUE, "", NoItems, NoItems)
WB              == Item("wb", << >>, {}, 0, 0, FALSE, "", NoItems, NoItems)
Bol             == Item("bol", << >>, {}, 0, 0, FALSE, "", NoItems, NoItems)
Eol             == Item("eol", << >>, {}, 0, 0, FALSE, "", NoItems, NoItems)
Open(n)         == Item("open", << >>, {}, 0, 0, FALSE, n, NoItems, NoItems)
Close(n)        == Item("close", << >>, {}, 0, 0, FALSE, n, NoItems, NoItems)
Opt(sub)        == Item("opt", << >>, {}, 0, 0, FALSE, "", sub, NoItems)
Alt(alts)       == Item("alt", << >>, {}, 0, 0, FALSE, "", NoItems, alts)
Group(n, sub)   == <<Open(n)>> \o sub \o <<Close(n)>>

Fields == {"name", "instrument", "connection", "account"}

\* No group has participated yet: m.group(k) is None for every k.
NoCaps == [f \in Fields |-> [set |-> FALSE, from |-> 0, val |-> << >>]]

NoMatch == [ok |-> FALSE, end |-> 0, caps |-> NoCaps]

\* A character matches a set; under re.IGNORECASE also when its other case does.
InClass(c, cls, ic) ==
  \/ c \in cls
  \/ ic /\ (LowerChar(c) \in cls \/ UpperChar(c) \in cls)

SameChar(a, b, ic) == a = b \/ (ic /\ LowerChar(a) = LowerChar(b))

LitAt(s, text, i, ic) ==
  /\ i + Len(s) - 1 <= Len(text)
  /\ \A k \in 1..Len(s) : SameChar(text[i + k - 1], s[k], ic)

\* \b : exactly one of the characters around position i is a word character.
IsWordAt(text, i) == i >= 1 /\ i <= Len(text) /\ text[i] \in Word
WordBoundary(text, i) == IsWordAt(text, i - 1) # IsWordAt(text, i)

\* Longest run of characters of cls from position i, at most cap characters.
RECURSIVE RunLen(_, _, _, _, _)
RunLen(cls, text, i, ic, cap) ==
  IF cap = 0 \/ i > Len(text) \/ ~InClass(text[i], cls, ic) THEN 0
  ELSE 1 + RunLen(cls, text, i + 1, ic, cap - 1)

\* Backtracking matcher: the first match, in the order Python's re tries
\* them, of the item sequence against text from position i.
RECURSIVE MatchFrom(_, _, _, _, _)
RECURSIVE GreedyFrom(_, _, _, _, _, _, _)
RECURSIVE LazyFrom(_, _, _, _, _, _)
RECURSIVE AltFrom(_, _, _, _, _, _)

MatchFrom(items, text, i, caps, ic) ==
  IF items = NoItems THEN [ok |-> TRUE, end |-> i, caps |-> caps]
  ELSE
    LET h == Head(items)
        t == Tail(items)
    IN CASE h.op = "lit" ->
              IF LitAt(h.s, text, i, ic)
              THEN MatchFrom(t, text, i + Len(h.s), caps, ic)
              ELSE NoMatch
         [] h.op = "cls" ->
              LET mx == RunLen(h.cls, text, i, ic,
                               IF h.unb THEN Len(text) ELSE h.hi)
              IN IF mx < h.lo THEN NoMatch
                 ELSE GreedyFrom(t, text, i, caps, ic, mx, h.lo)
         [] h.op = "lazy" -> LazyFrom(t, text, i, caps, ic, 0)
         [] h.op = "wb" ->
              IF WordBoundary(text, i) THEN MatchFrom(t, text, i, caps, ic)
              ELSE NoMatch
         [] h.op = "bol" ->
              IF i = 1 THEN MatchFrom(t, text, i, caps, ic) ELSE NoMatch
         [] h.op = "eol" ->
              IF i = Len(text) + 1 THEN MatchFrom(t, text, i, caps, ic)
              ELSE NoMatch
         [] h.op = "open" ->
              MatchFrom(t, text, i,
                        [caps EXCEPT ![h.name].from = i], ic)
         [] h.op = "close" ->
              MatchFrom(t, text, i,
                        [caps EXCEPT ![h.name] =
                           [set |-> TRUE, from |-> @.from,
                            val |-> Slice(text, @.from, i - 1)]], ic)
         [] h.op = "opt" ->
              LET r == MatchFrom(h.sub \o t, text, i, caps, ic)
              IN IF r.ok THEN r ELSE MatchFrom(t, text, i, caps, ic)
         [] h.op = "alt" -> AltFrom(h.alts, t, text, i, caps, ic)

\* Greedy repetition: n characters taken, longest first, down to lo.
GreedyFrom(t, text, i, caps, ic, n, lo) ==
  LET r == MatchFrom(t, text, i + n, caps, ic)
  IN IF r.ok THEN r
     ELSE IF n <= lo THEN NoMatch
     ELSE GreedyFrom(t, text, i, caps, ic, n - 1, lo)

\* Lazy .*? : n characters taken, shortest first.
LazyFrom(t, text, i, caps, ic, n) ==
  IF i + n > Len(text) + 1 THEN NoMatch
  ELSE LET r == MatchFrom(t, text, i + n, caps, ic)
       IN IF r.ok THEN r ELSE LazyFrom(t, text, i, caps, ic, n + 1)

\* Alternation: the alternatives in order.
AltFrom(alts, t, text, i, caps, ic) ==
  IF alts = NoItems THEN NoMatch
  ELSE LET r == MatchFrom(Head(alts) \o t, text, i, caps, ic)
       IN IF r.ok THEN r ELSE AltFrom(Tail(alts), t, text, i, caps, ic)

\* re.search: the match at the leftmost starting position.
RECURSIVE SearchFrom(_, _, _, _)
SearchFrom(items, text, i, ic) ==
  IF i > Len(text) + 1 THEN NoMatch
  ELSE LET r == MatchFrom(items, text, i, NoCaps, ic)
       IN IF r.ok THEN r ELSE SearchFrom(items, text, i + 1, ic)

ReSearch(items, text, ic) == SearchFrom(items, text, 1, ic)

\* compiled.match: a match at the start of the text only.
ReMatch(items, text, ic) == MatchFrom(items, text, 1, NoCaps, ic)

\* (m.group(k) or "")
GroupOr(m, k) == IF m.caps[k].set THEN m.caps[k].val ELSE << >>

\* ------------------------------------------------------------------------
\* DEFAULT_PATTERNS
\* ------------------------------------------------------------------------
\* The literal words of the patterns.
W_enabling == <<"e", "n", "a", "b", "l", "i", "n", "g">>
W_disabling == <<"d", "i", "s", "a", "b", "l", "i", "n", "g">>
W_ninjascript == <<"n", "i", "n", "j", "a", "s", "c", "r", "i", "p", "t">>
W_strategy == <<"s", "t", "r", "a", "t", "e", "g", "y">>
W_enabled == <<"e", "n", "a", "b", "l", "e", "d">>
W_disabled == <<"d", "i", "s", "a", "b", "l", "e", "d">>
W_on == <<"o", "n">>
W_for == <<"f", "o", "r">>
W_via == <<"v", "i", "a">>
W_connection == <<"c", "o", "n", "n", "e", "c", "t", "i", "o", "n">>
W_account == <<"a", "c", "c", "o", "u", "n", "t">>
Quote == <<"'">>
Dash == <<"-">>

\* _MONTHS = "JAN|FEB|MAR|APR|MAY|JUN|JUL|AUG|SEP|OCT|NOV|DEC"
_MONTHS ==
  <<<<Lit(<<"J", "A", "N">>)>>,
    <<Lit(<<"F", "E", "B">>)>>,
    <<Lit(<<"M", "A", "R">>)>>,
    <<Lit(<<"A", "P", "R">>)>>,
    <<Lit(<<"M", "A", "Y">>)>>,
    <<Lit(<<"J", "U", "N">>)>>,
    <<Lit(<<"J", "U", "L">>)>>,
    <<Lit(<<"A", "U", "G">>)>>,
    <<Lit(<<"S", "E", "P">>)>>,
    <<Lit(<<"O", "C", "T">>)>>,
    <<Lit(<<"N", "O", "V">>)>>,
    <<Lit(<<"D", "E", "C">>)>>>>

\* '(?P<name>[^']+)'
QuotedName == <<Lit(Quote)>> \o Group("name", <<Plus(NotQuote)>>) \o <<Lit(Quote)>>

\* (?P<name>[A-Za-z0-9_\-\.]+)
BareName == Group("name", <<Plus(NameChars)>>)

\* (?P<instrument>[A-Z0-9]{1,6}(?:\s+[A-Z]{3}\d{2})?)
LooseInstrument ==
  Group("instrument",
        <<Rep(UpAlnum, 1, 6),
          Opt(<<Plus(Space), Rep(Upper, 3, 3), Rep(Digit, 2, 2)>>)>>)

\* (?P<connection>[\w\s\-\.\#]+)
ConnectionGroup == Group("connection", <<Plus(ConnChars)>>)

\* \b<verb>ing\s+ninjascript\s+strategy\s+'(?P<name>[^']+)'
PatNinjaScript(verbing) ==
  <<WB, Lit(verbing), Plus(Space), Lit(W_ninjascript), Plus(Space),
    Lit(W_strategy), Plus(Space)>> \o QuotedName

\* strategy\s+'(?P<name>[^']+)'.*?\bon\b\s+(?P<instrument>...)\b.*?\b<verb>\b
\*   .*?(?:connection|account)\s+(?P<connection>[\w\s\-\.\#]+)
PatStrategyOn(verb) ==
  <<Lit(W_strategy), Plus(Space)>> \o QuotedName \o
  <<LazyAny, WB, Lit(W_on), WB, Plus(Space)>> \o LooseInstrument \o
  <<WB, LazyAny, WB, Lit(verb), WB, LazyAny,
    Alt(<<<<Lit(W_connection)>>, <<Lit(W_account)>>>>), Plus(Space)>> \o
  ConnectionGroup

\* \b<verb>\b.*?strategy\s+'(?P<name>[^']+)'.*?\bfor\b\s+(?P<instrument>...)\b
\*   .*?(?:via|on|connection)\s+(?P<connection>[\w\s\-\.\#]+)
PatVerbStrategyFor(verb) ==
  <<WB, Lit(verb), WB, LazyAny, Lit(W_strategy), Plus(Space)>> \o
  QuotedName \o
  <<LazyAny, WB, Lit(W_for), WB, Plus(Space)>> \o LooseInstrument \o
  <<WB, LazyAny,
    Alt(<<<<Lit(W_via)>>, <<Lit(W_on)>>, <<Lit(W_connection)>>>>),
    Plus(Space)>> \o ConnectionGroup

\* strategy\s+(?P<name>[A-Za-z0-9_\-\.]+).*?\b<verb>\b
\*   (?:.*?(?P<instrument>...))?(?:.*?(?:connection|via)\s+(?P<connection>...))?
PatBareStrategy(verb) ==
  <<Lit(W_strategy), Plus(Space)>> \o BareName \o
  <<LazyAny, WB, Lit(verb), WB,
    Opt(<<LazyAny>> \o LooseInstrument),
    Opt(<<LazyAny, Alt(<<<<Lit(W_connection)>>, <<Lit(W_via)>>>>),
          Plus(Space)>> \o ConnectionGroup)>>

\* \bdisabled\b.*?strategy\s+'(?P<name>[^']+)'(?:.*?(?P<instrument>...))?
\*   (?:.*?(?:connection|via|on)\s+(?P<connection>...))?
PatDisabledQuoted ==
  <<WB, Lit(W_disabled), WB, LazyAny, Lit(W_strategy), Plus(Space)>> \o
  QuotedName \o
  <<Opt(<<LazyAny>> \o LooseInstrument),
    Opt(<<LazyAny,
          Alt(<<<<Lit(W_connection)>>, <<Lit(W_via)>>, <<Lit(W_on)>>>>),
          Plus(Space)>> \o ConnectionGroup)>>

\* [A-Z]{1,6}\s+(?:JAN|...|DEC)\s?\d{2}
FutMMMYY ==
  <<Rep(Upper, 1, 6), Plus(Space), Alt(_MONTHS), Rep(Space, 0, 1),
    Rep(Digit, 2, 2)>>

\* [A-Z]{1,6}\s+\d{2}-\d{2}
FutMMYY ==
  <<Rep(Upper, 1, 6), Plus(Space), Rep(Digit, 2, 2), Lit(Dash),
    Rep(Digit, 2, 2)>>

\* [A-Z]{1,6}
Symbol == <<Rep(Upper, 1, 6)>>

\* \b<prep>\s+(?P<instrument><shape>)\b
ExtractInstrument(prep, shape) ==
  <<WB, Lit(prep), Plus(Space)>> \o Group("instrument", shape) \o <<WB>>

DEFAULT_PATTERNS ==
  [enabled |->
     <<PatNinjaScript(W_enabling),
       PatStrategyOn(W_enabled),
       PatVerbStrategyFor(W_enabled),
       PatBareStrategy(W_enabled)>>,
   disabled |->
     <<PatNinjaScript(W_disabling),
       PatStrategyOn(W_disabled),
       PatVerbStrategyFor(W_disabled),
       PatDisabledQuoted,
       PatBareStrategy(W_disabled)>>,
   extractors |->
     [name |->
        <<<<Lit(W_strategy), Plus(Space)>> \o QuotedName,
          <<Lit(W_strategy), Plus(Space)>> \o BareName>>,
      instrument |->
        <<ExtractInstrument(W_on, FutMMMYY),
          ExtractInstrument(W_on, FutMMYY),
          ExtractInstrument(W_for, FutMMMYY),
          ExtractInstrument(W_for, FutMMYY),
          ExtractInstrument(W_on, Symbol),
          ExtractInstrument(W_for, Symbol)>>,
      connection |->
        <<<<Alt(<<<<Lit(W_connection)>>, <<Lit(W_via)>>>>), Plus(Space)>> \o
          ConnectionGroup>>,
      account |->
        <<<<Lit(W_account), Plus(Space)>> \o
          Group("account", <<Plus(ConnChars)>>)>>]]

\* Valid instrument helpers (compiled without re.IGNORECASE).
_RE_FUT_MMMYY == <<Bol>> \o FutMMMYY \o <<Eol>>
_RE_FUT_MMYY == <<Bol>> \o FutMMYY \o <<Eol>>
_RE_SYMBOL == <<Bol>> \o Symbol \o <<Eol>>

ValidInstrument(s) ==
  \E re \in {_RE_FUT_MMMYY, _RE_FUT_MMYY, _RE_SYMBOL} : ReMatch(re, s, FALSE).ok


\* ------------------------------------------------------------------------
\* Pattern Matcher and Field Completer
\* ------------------------------------------------------------------------
\* str.strip(chars): remove leading and trailing characters of the set.
RECURSIVE LStrip(_, _)
LStrip(s, chars) ==
  IF s # << >> /\ Head(s) \in chars THEN LStrip(Tail(s), chars) ELSE s

RECURSIVE RStrip(_, _)
RStrip(s, chars) ==
  IF s # << >> /\ s[Len(s)] \in chars
  THEN RStrip(Slice(s, 1, Len(s) - 1), chars) ELSE s

Strip(s, chars) == RStrip(LStrip(s, chars), chars)

\* " :;,-[]()"
TrimChars == {" ", ":", ";", ",", "-", "[", "]", "(", ")"}

\* s.split("/", 1)[0]
RECURSIVE SplitFirst(_, _)
SplitFirst(s, sep) ==
  IF s = << >> \/ Head(s) = sep THEN << >>
  ELSE <<Head(s)>> \o SplitFirst(Tail(s), sep)

\* A status dict.  A key that is absent and a key whose value is "" are the
\* same thing to every reader of the dict (status.get(k), status.get(k, "")),
\* so both are the empty string here.
StatusDict(enabled, name, instrument, connection) ==
  [enabled |-> enabled, name |-> name, instrument |-> instrument,
   connection |-> connection, account |-> << >>]

NoStatus == [matched |-> FALSE, status |-> StatusDict(FALSE, << >>, << >>, << >>)]

\* gd[k] = (m.group(k) or "").strip(), and 'Foo/12345' -> 'Foo' for the name
Captured(m, enabled) ==
  LET name == Strip(GroupOr(m, "name"), Space)
  IN StatusDict(enabled,
                IF "/" \in Range(name) THEN SplitFirst(name, "/") ELSE name,
                Strip(GroupOr(m, "instrument"), Space),
                Strip(GroupOr(m, "connection"), Space))

\* The first pattern of the list that is found in low, if any.
RECURSIVE FirstMatch(_, _)
FirstMatch(pats, low) ==
  IF pats = << >> THEN NoMatch
  ELSE LET m == ReSearch(Head(pats), low, TRUE)
       IN IF m.ok THEN m ELSE FirstMatch(Tail(pats), low)

\* A matcher that tries the disabled list first.
FirstOfLists_DisabledFirst(me, md) ==
  IF md.ok THEN [matched |-> TRUE, status |-> Captured(md, FALSE)]
  ELSE IF me.ok THEN [matched |-> TRUE, status |-> Captured(me, TRUE)]
  ELSE NoStatus

\* The enabled list is tried first, the disabled list only if it fails.
FirstOfLists(me, md) ==
  IF me.ok THEN [matched |-> TRUE, status |-> Captured(me, TRUE)]
  ELSE IF md.ok THEN [matched |-> TRUE, status |-> Captured(md, FALSE)]
  ELSE NoStatus

parse_with_patterns(line, patterns) ==
  FirstOfLists(FirstMatch(patterns.enabled, StrLower(line)),
               FirstMatch(patterns.disabled, StrLower(line)))

\* The value the extractors of one field give: the first pattern that matches.
Extracted(field, low, extractors) ==
  Strip(GroupOr(FirstMatch(extractors[field], low), field), Space)

\* A field that is missing or empty is taken from the extractors; then
\* status[k] = status[k].strip(" :;,-[]()")
Trimmed(field, low, status, extractors) ==
  Strip(IF status[field] # << >> THEN status[field]
        ELSE Extracted(field, low, extractors),
        TrimChars)

\* A completer that keeps whatever instrument it has.
Validated_Unchecked(enabled, f) ==
  [enabled |-> enabled,
   name |-> f["name"],
   instrument |-> f["instrument"],
   connection |-> f["connection"],
   account |-> f["account"]]

\* Validate instrument to avoid false positives like bare years
Validated(enabled, f) ==
  [enabled |-> enabled,
   name |-> f["name"],
   instrument |-> IF f["instrument"] # << >> /\ ~ValidInstrument(f["instrument"])
                  THEN << >> ELSE f["instrument"],
   connection |-> f["connection"],
   account |-> f["account"]]

fill_missing_fields(line, status, patterns) ==
  Validated(status.enabled,
            [field \in Fields |->
               Trimmed(field, StrLower(line), status, patterns.extractors)])

\* re.search compiles the pattern first and raises re.error for a pattern
\* that does not compile: here, one whose parentheses are not balanced.
Compiles(pat) ==
  Cardinality({ i \in 1..Len(pat) : pat[i].op = "open" })
    = Cardinality({ i \in 1..Len(pat) : pat[i].op = "close" })

\* The loop over a pattern list reaches a pattern that does not compile:
\* none of the patterns before it is found in low.
FirstRaises(pats, low) ==
  \E i \in 1..Len(pats) :
    /\ ~Compiles(pats[i])
    /\ \A j \in 1..(i - 1) :
         Compiles(pats[j]) /\ ~ReSearch(pats[j], low, TRUE).ok

\* parse_with_patterns raises: in the enabled list, or, when no enabled
\* pattern is found, in the disabled list.
ParseRaises(line, patterns) ==
  \/ FirstRaises(patterns.enabled, StrLower(line))
  \/ /\ ~FirstMatch(patterns.enabled, StrLower(line)).ok
     /\ FirstRaises(patterns.disabled, StrLower(line))

\* fill_missing_fields raises: in the extractors of a field that is missing.
FillRaises(line, status, patterns) ==
  \E field \in Fields :
    /\ status[field] = << >>
    /\ FirstRaises(patterns.extractors[field], StrLower(line))

\* ------------------------------------------------------------------------
\* Log lines the writer can produce
\* ------------------------------------------------------------------------
\* Strategy 'Alpha' on MGC DEC25 enabled on connection Sim101
L_AlphaMgcOn ==
  <<"S", "t", "r", "a", "t", "e", "g", "y", " ", "'", "A", "l", "p", "h", "a", "'", " ", "o", "n", " ", "M", "G", "C", " ", "D", "E", "C", "2", "5", " ", "e", "n", "a", "b", "l", "e", "d", " ", "o", "n", " ", "c", "o", "n", "n", "e", "c", "t", "i", "o", "n", " ", "S", "i", "m", "1", "0", "1">>

\* Strategy 'Alpha' on MGC DEC25 disabled on connection Sim101
L_AlphaMgcOff ==
  <<"S", "t", "r", "a", "t", "e", "g", "y", " ", "'", "A", "l", "p", "h", "a", "'", " ", "o", "n", " ", "M", "G", "C", " ", "D", "E", "C", "2", "5", " ", "d", "i", "s", "a", "b", "l", "e", "d", " ", "o", "n", " ", "c", "o", "n", "n", "e", "c", "t", "i", "o", "n", " ", "S", "i", "m", "1", "0", "1">>

\* Strategy 'Alpha' on MNQ DEC25 enabled on connection Sim101
L_AlphaMnqOn ==
  <<"S", "t", "r", "a", "t", "e", "g", "y", " ", "'", "A", "l", "p", "h", "a", "'", " ", "o", "n", " ", "M", "N", "Q", " ", "D", "E", "C", "2", "5", " ", "e", "n", "a", "b", "l", "e", "d", " ", "o", "n", " ", "c", "o", "n", "n", "e", "c", "t", "i", "o", "n", " ", "S", "i", "m", "1", "0", "1">>

\* Disabling NinjaScript strategy 'Beta/9981'
L_BetaOff ==
  <<"D", "i", "s", "a", "b", "l", "i", "n", "g", " ", "N", "i", "n", "j", "a", "S", "c", "r", "i", "p", "t", " ", "s", "t", "r", "a", "t", "e", "g", "y", " ", "'", "B", "e", "t", "a", "/", "9", "9", "8", "1", "'">>

\* Disabling NinjaScript strategy '/9981'
L_SlashOff ==
  <<"D", "i", "s", "a", "b", "l", "i", "n", "g", " ", "N", "i", "n", "j", "a", "S", "c", "r", "i", "p", "t", " ", "s", "t", "r", "a", "t", "e", "g", "y", " ", "'", "/", "9", "9", "8", "1", "'">>

\* Strategy 'Gamma' on 2025 enabled on connection Sim101
L_Gamma2025 ==
  <<"S", "t", "r", "a", "t", "e", "g", "y", " ", "'", "G", "a", "m", "m", "a", "'", " ", "o", "n", " ", "2", "0", "2", "5", " ", "e", "n", "a", "b", "l", "e", "d", " ", "o", "n", " ", "c", "o", "n", "n", "e", "c", "t", "i", "o", "n", " ", "S", "i", "m", "1", "0", "1">>

\* Connected to Sim101
L_Noise ==
  <<"C", "o", "n", "n", "e", "c", "t", "e", "d", " ", "t", "o", " ", "S", "i", "m", "1", "0", "1">>

\* (an empty line)
L_Empty ==
  << >>

\* Disabling NinjaScript strategy 'Foo' (strategy was enabled)
L_FooOffWasOn ==
  <<"D", "i", "s", "a", "b", "l", "i", "n", "g", " ", "N", "i", "n", "j", "a", "S", "c", "r", "i", "p", "t", " ", "s", "t", "r", "a", "t", "e", "g", "y", " ", "'", "F", "o", "o", "'", " ", "(", "s", "t", "r", "a", "t", "e", "g", "y", " ", "w", "a", "s", " ", "e", "n", "a", "b", "l", "e", "d", ")">>

\* Strategy Foo enabled then disabled
L_FooOnThenOff ==
  <<"S", "t", "r", "a", "t", "e", "g", "y", " ", "F", "o", "o", " ", "e", "n", "a", "b", "l", "e", "d", " ", "t", "h", "e", "n", " ", "d", "i", "s", "a", "b", "l", "e", "d">>

\* Enabling NinjaScript strategy 'Foo/12345'
L_FooOn ==
  <<"E", "n", "a", "b", "l", "i", "n", "g", " ", "N", "i", "n", "j", "a", "S", "c", "r", "i", "p", "t", " ", "s", "t", "r", "a", "t", "e", "g", "y", " ", "'", "F", "o", "o", "/", "1", "2", "3", "4", "5", "'">>

\* Strategy Foo enabled
L_FooBareOn ==
  <<"S", "t", "r", "a", "t", "e", "g", "y", " ", "F", "o", "o", " ", "e", "n", "a", "b", "l", "e", "d">>

\* Strategy Foo disabled
L_FooBareOff ==
  <<"S", "t", "r", "a", "t", "e", "g", "y", " ", "F", "o", "o", " ", "d", "i", "s", "a", "b", "l", "e", "d">>

\* Disabled strategy 'Foo' for MNQ DEC25 via Sim101
L_FooForOff ==
  <<"D", "i", "s", "a", "b", "l", "e", "d", " ", "s", "t", "r", "a", "t", "e", "g", "y", " ", "'", "F", "o", "o", "'", " ", "f", "o", "r", " ", "M", "N", "Q", " ", "D", "E", "C", "2", "5", " ", "v", "i", "a", " ", "S", "i", "m", "1", "0", "1">>

\* Enabled strategy 'Foo' for MNQ DEC25 via Sim101
L_FooForOn ==
  <<"E", "n", "a", "b", "l", "e", "d", " ", "s", "t", "r", "a", "t", "e", "g", "y", " ", "'", "F", "o", "o", "'", " ", "f", "o", "r", " ", "M", "N", "Q", " ", "D", "E", "C", "2", "5", " ", "v", "i", "a", " ", "S", "i", "m", "1", "0", "1">>

\* Disabled strategy 'Foo' on AAPL
L_FooQuotedOff ==
  <<"D", "i", "s", "a", "b", "l", "e", "d", " ", "s", "t", "r", "a", "t", "e", "g", "y", " ", "'", "F", "o", "o", "'", " ", "o", "n", " ", "A", "A", "P", "L">>

\* Strategy 'Alpha' on MGC DEC25 enabled on account Apex1
L_AlphaAcct ==
  <<"S", "t", "r", "a", "t", "e", "g", "y", " ", "'", "A", "l", "p", "h", "a", "'", " ", "o", "n", " ", "M", "G", "C", " ", "D", "E", "C", "2", "5", " ", "e", "n", "a", "b", "l", "e", "d", " ", "o", "n", " ", "a", "c", "c", "o", "u", "n", "t", " ", "A", "p", "e", "x", "1">>

\* Strategy 'Alpha' on MGC DEC25 enabled on connection Sim101, account A1
L_AlphaAcctA1 ==
  <<"S", "t", "r", "a", "t", "e", "g", "y", " ", "'", "A", "l", "p", "h", "a", "'", " ", "o", "n", " ", "M", "G", "C", " ", "D", "E", "C", "2", "5", " ", "e", "n", "a", "b", "l", "e", "d", " ", "o", "n", " ", "c", "o", "n", "n", "e", "c", "t", "i", "o", "n", " ", "S", "i", "m", "1", "0", "1", ",", " ", "a", "c", "c", "o", "u", "n", "t", " ", "A", "1">>

\* Strategy 'Alpha' on MGC DEC25 enabled on connection Sim101, account A2
L_AlphaAcctA2 ==
  <<"S", "t", "r", "a", "t", "e", "g", "y", " ", "'", "A", "l", "p", "h", "a", "'", " ", "o", "n", " ", "M", "G", "C", " ", "D", "E", "C", "2", "5", " ", "e", "n", "a", "b", "l", "e", "d", " ", "o", "n", " ", "c", "o", "n", "n", "e", "c", "t", "i", "o", "n", " ", "S", "i", "m", "1", "0", "1", ",", " ", "a", "c", "c", "o", "u", "n", "t", " ", "A", "2">>

\* Enabling NinjaScript strategy '-'
L_DashOn ==
  <<"E", "n", "a", "b", "l", "i", "n", "g", " ", "N", "i", "n", "j", "a", "S", "c", "r", "i", "p", "t", " ", "s", "t", "r", "a", "t", "e", "g", "y", " ", "'", "-", "'">>

\* The lines by number; files hold line numbers.
LOG_LINES ==
  <<L_AlphaMgcOn,
    L_AlphaMgcOff,
    L_AlphaMnqOn,
    L_BetaOff,
    L_SlashOff,
    L_Gamma2025,
    L_Noise,
    L_Empty,
    L_FooOffWasOn,
    L_FooOnThenOff,
    L_FooOn,
    L_FooBareOn,
    L_FooBareOff,
    L_FooForOff,
    L_FooForOn,
    L_FooQuotedOff,
    L_AlphaAcct,
    L_AlphaAcctA1,
    L_AlphaAcctA2,
    L_DashOn>>

LineIds == 1..Len(LOG_LINES)
LineId(text) == CHOOSE l \in LineIds : LOG_LINES[l] = text

\* ------------------------------------------------------------------------
\* Configuration
\* ------------------------------------------------------------------------
\* The pattern sets a run can be configured with: the built-in defaults, and
\* two config.json files that replace the enabled / disabled lists
\* (load_config keeps a list the user gives and takes the default otherwise).
PATTERN_SETS ==
  <<DEFAULT_PATTERNS,
    [DEFAULT_PATTERNS EXCEPT !.enabled = <<PatBareStrategy(W_enabled)>>],
    [DEFAULT_PATTERNS EXCEPT !.enabled = <<PatNinjaScript(W_enabling)>>,
                             !.disabled = <<PatNinjaScript(W_disabling),
                                            PatDisabledQuoted>>]>>

PatternSetIds == 1..Len(PATTERN_SETS)

\* strategy\s+'(?P<name>[^']+' : a pattern of a config.json whose group is
\* not closed.
PatUnclosed ==
  <<Lit(W_strategy), Plus(Space), Lit(Quote), Open("name"), Plus(NotQuote),
    Lit(Quote)>>

\* watch["patterns"] of the runs of the monitor: one of the pattern sets
\* above, or a config.json whose enabled list has the unclosed pattern.
WATCH_PATTERNS ==
  Append(PATTERN_SETS,
         [DEFAULT_PATTERNS EXCEPT !.enabled = <<PatNinjaScript(W_enabling),
                                                PatUnclosed>>])

UnclosedSet == Len(WATCH_PATTERNS)

\* watch["match_strategies"]: the default, and an allow-list of one name.
N_ALPHA == <<"A", "L", "P", "H", "A">>
NoAllowList == << >>
AlphaOnly == <<N_ALPHA>>

\* text[i..] starts with s
StartsAt(text, i, s) ==
  /\ i + Len(s) - 1 <= Len(text)
  /\ \A k \in 1..Len(s) : text[i + k - 1] = s[k]

\* any(s.lower() in low for s in subs), True for an empty subs
requires_any(text, subs) ==
  \/ subs = << >>
  \/ \E n \in 1..Len(subs) :
       \E i \in 1..(Len(text) + 1) :
         StartsAt(StrLower(text), i, StrLower(subs[n]))

\* DEFAULT_CONFIG["strategy_status_watch"]["cooldown_min"]
cooldown_min == 1

\* ------------------------------------------------------------------------
\* The pipeline both the backfill and the live loop run on a line
\* ------------------------------------------------------------------------
\* if not raw_line / if not matched / fill_missing_fields / if no name: skip.
\* A line that raises is left by the except clause: it is skipped as well.
Skipped == [skip |-> TRUE, raised |-> FALSE, status |-> NoStatus.status]
Raised == [skip |-> TRUE, raised |-> TRUE, status |-> NoStatus.status]

\* A completion that takes every matched line, named or not.
Named_Always(st) == [skip |-> FALSE, raised |-> FALSE, status |-> st]

\* if not status.get("name"): continue
Named(st) == [skip |-> st.name = << >>, raised |-> FALSE, status |-> st]

Completed(line, p, patterns) ==
  IF ~p.matched THEN Skipped
  ELSE IF FillRaises(line, p.status, patterns) THEN Raised
  ELSE Named(fill_missing_fields(line, p.status, patterns))

LineStatus(line, patterns) ==
  IF line = << >> THEN Skipped
  ELSE IF ParseRaises(line, patterns) THEN Raised
  ELSE Completed(line, parse_with_patterns(line, patterns), patterns)

\* requires_any for every allow-list and every line of the model.
AllowLists == {NoAllowList, AlphaOnly}
RequiresAnyOf ==
  [subs \in AllowLists |->
     [l \in LineIds |-> requires_any(LOG_LINES[l], subs)]]

\* if match_strategies and not requires_any(raw_line, match_strategies):
\* continue.  The test comes before the match and can only skip the line, so
\* it is applied to the result r line l has without an allow-list.
Allowed(l, subs, r) ==
  IF subs # << >> /\ ~RequiresAnyOf[subs][l] THEN Skipped ELSE r

\* The pipeline's result for every line of the model under every pattern set.
RECURSIVE LineStatusUpTo(_, _)
LineStatusUpTo(n, ps) ==
  IF n = 0 THEN << >>
  ELSE Append(LineStatusUpTo(n - 1, ps),
              LineStatus(LOG_LINES[n], WATCH_PATTERNS[ps]))

RECURSIVE LineStatusSets(_)
LineStatusSets(n) ==
  IF n = 0 THEN << >>
  ELSE Append(LineStatusSets(n - 1), LineStatusUpTo(Len(LOG_LINES), n))

LineStatusOf == LineStatusSets(Len(WATCH_PATTERNS))

\* ------------------------------------------------------------------------
\* Status Table: a Python dict, i.e. entries in insertion order
\* ------------------------------------------------------------------------
StrategyStatus(name, instrument, enabled, connection, account) ==
  [name |-> name, instrument |-> instrument, enabled |-> enabled,
   connection |-> connection, account |-> account]

DictKeys(d) == { d[i].key : i \in 1..Len(d) }
DictHas(d, k) == k \in DictKeys(d)
DictIndex(d, k) == CHOOSE i \in 1..Len(d) : d[i].key = k
DictGet(d, k) == d[DictIndex(d, k)].val

\* A store that adds an entry whether or not the key is present.
DictSet_Append(d, k, v) == Append(d, [key |-> k, val |-> v])

\* d[k] = v : a present key keeps its position, a new key goes last.
DictSet(d, k, v) ==
  IF DictHas(d, k) THEN [d EXCEPT ![DictIndex(d, k)].val = v]
  ELSE Append(d, [key |-> k, val |-> v])

\* ------------------------------------------------------------------------
\* Snapshot
\* ------------------------------------------------------------------------
\* a < b for strings (code point order, a proper prefix is smaller)
RECURSIVE StrLess(_, _)
StrLess(a, b) ==
  IF b = << >> THEN FALSE
  ELSE IF a = << >> THEN TRUE
  ELSE IF Head(a) # Head(b) THEN Code(Head(a)) < Code(Head(b))
  ELSE StrLess(Tail(a), Tail(b))

\* A sort key that keeps the letter case.
SortKey_CaseSensitive(s) == <<s.name, s.instrument>>

\* key=lambda s: (s.name.lower(), s.instrument.lower())
SortKey(s) == <<StrLower(s.name), StrLower(s.instrument)>>

\* tuple comparison k1 < k2
KeyLess(k1, k2) ==
  \/ StrLess(k1[1], k2[1])
  \/ k1[1] = k2[1] /\ StrLess(k1[2], k2[2])

\* sorted() is stable: x goes after every element that is not greater.
RECURSIVE InsertSorted(_, _)
InsertSorted(sorted, x) ==
  IF sorted = << >> THEN <<x>>
  ELSE IF KeyLess(SortKey(x), SortKey(Head(sorted)))
       THEN <<x>> \o sorted
       ELSE <<Head(sorted)>> \o InsertSorted(Tail(sorted), x)

RECURSIVE SortedValues(_)
SortedValues(d) ==
  IF d = << >> THEN << >>
  ELSE InsertSorted(SortedValues(Slice(d, 1, Len(d) - 1)), d[Len(d)].val)

statuses_to_json(d, t) ==
  [updated_at |-> t, strategies |-> SortedValues(d)]

\* ------------------------------------------------------------------------
\* State
\* ------------------------------------------------------------------------
VARIABLES
  files,            \* the log directory: per file name, exists / mtime / lines
  now,              \* wall clock, in minutes
  vocab,            \* the lines the writer writes in this run
  dir,              \* the file names the writer uses in this run
  pattern_set,      \* watch["patterns"], an index of WATCH_PATTERNS
  match_strategies, \* watch["match_strategies"]
  email_on_change,  \* watch["email_on_change"]
  open_fails,       \* whether opening a log file can raise in this run
  pc,               \* "start" before the initial snapshot, then "tail"
  initial,          \* the dict build_initial_statuses returned
  tail_read,        \* the number of lines the backfill read
  statuses,         \* the Status Table
  current,          \* tailer.current
  fh,               \* tailer.fh: the open file and the read offset (in lines)
  opens,            \* the opens open_latest has done: the file, its length then
  status_json,      \* the snapshot file
  json_writes,      \* calls of atomic_write_json so far
  notices,          \* the "Strategy change" notices printed so far
  published,        \* the payloads handed to publisher.upsert_status so far
  emails,           \* the times of the successful send_email calls
  attempts,         \* the times of all send_email calls
  last_email_time,  \* << >> for None, else <<time>>
  yielded,          \* the lines tailer.lines() has yielded so far
  fn_stage,         \* position of a call of the pure functions, "idle" if none
  fn_line,          \* its argument: a line
  fn_patterns,      \* its argument: a pattern set
  fn_status,        \* the (matched, status) it has computed so far
  fn_statuses,      \* its argument: a Status Table
  fn_json,          \* the snapshot object it returned
  disk,             \* the snapshot path and its temp file, chunk by chunk
  reader            \* what a reader of the snapshot path got last

envVars == <<files, now>>
cfgVars == <<vocab, dir, pattern_set, match_strategies, email_on_change,
            open_fails>>
tailVars == <<current, fh, opens, yielded>>
tableVars == <<statuses, status_json, json_writes>>
outVars == <<notices, published, emails, attempts, last_email_time>>
fnVars == <<fn_stage, fn_line, fn_patterns, fn_status, fn_statuses, fn_json,
            disk, reader>>
monitorVars == <<pc, initial, tail_read, tailVars, tableVars, outVars>>
vars == <<envVars, cfgVars, monitorVars, fnVars>>

\* Bounds of the model.
MaxAppends == 3
MaxTime == 2

\* ------------------------------------------------------------------------
\* The log directory
\* ------------------------------------------------------------------------
TxtNames == {"log.1.txt", "log.2.txt"}          \* match log*.txt
FileNames == TxtNames \cup {"log.3"}            \* match log*
NoFile == "None"
NoHandle == [file |-> NoFile, pos |-> 0]
NoSnapshot == [exists |-> FALSE, data |-> [updated_at |-> 0, strategies |-> << >>]]
Missing == [exists |-> FALSE, chunks |-> << >>]
NoDisk == [path |-> Missing, tmp |-> Missing]
NoRead == [done |-> FALSE, got |-> Missing]

Newest(fs, S) == CHOOSE f \in S : \A g \in S : fs[g].mtime <= fs[f].mtime

\* newest_log_file: the newest log*.txt, else the newest log*, else None
newest_log_file(fs) ==
  LET txt == { f \in TxtNames : fs[f].exists }
      any == { f \in FileNames : fs[f].exists }
  IN IF txt # {} THEN Newest(fs, txt)
     ELSE IF any # {} THEN Newest(fs, any)
     ELSE NoFile

\* The modification time a write done now gets: mtimes of successive writes
\* are distinct and increasing.
RECURSIVE SumLen(_, _)
SumLen(fs, S) ==
  IF S = {} THEN 0
  ELSE LET f == CHOOSE g \in S : TRUE
       IN Len(fs[f].content) + SumLen(fs, S \ {f})

Appended(fs) == SumLen(fs, FileNames)
Created(fs) == Cardinality({ f \in FileNames : fs[f].exists })
NextMtime(fs) == Appended(fs) + Created(fs) + 1

\* The writer creates a log file.
WriterCreate(f) ==
  /\ f \in dir
  /\ ~files[f].exists
  /\ files' = [files EXCEPT ![f] =
                 [exists |-> TRUE, mtime |-> NextMtime(files), content |-> << >>]]
  /\ UNCHANGED <<now, cfgVars, monitorVars, fnVars>>

\* The writer appends one line to a log file.
WriterAppend(f, l) ==
  /\ files[f].exists
  /\ l \in vocab
  /\ Appended(files) < MaxAppends
  /\ files' = [files EXCEPT ![f].content = Append(@, l),
                            ![f].mtime = NextMtime(files)]
  /\ UNCHANGED <<now, cfgVars, monitorVars, fnVars>>

\* A minute passes.  The clock is read by the email cooldown (and stamps the
\* snapshot); runs that do not email are explored within one minute.
TimePasses ==
  /\ email_on_change
  /\ now < MaxTime
  /\ now' = now + 1
  /\ UNCHANGED <<files, cfgVars, monitorVars, fnVars>>

\* ------------------------------------------------------------------------
\* Backfill
\* ------------------------------------------------------------------------
\* _read_last_lines: the lines of the file's last max_bytes bytes; the files
\* of the model are shorter than max_bytes.
_read_last_lines(fs, path) == fs[path].content

\* A backfill that keeps the first record it finds for a key.
BackfillOne_KeepFirst(d, r) ==
  IF r.skip \/ DictHas(d, <<r.status.name, r.status.instrument>>) THEN d
  ELSE DictSet(d, <<r.status.name, r.status.instrument>>,
               StrategyStatus(r.status.name, r.status.instrument,
                              r.status.enabled, r.status.connection,
                              r.status.account))

\* statuses[key] = StrategyStatus(...) for a line the pipeline does not skip
BackfillOne(d, r) ==
  IF r.skip THEN d
  ELSE DictSet(d, <<r.status.name, r.status.instrument>>,
               StrategyStatus(r.status.name, r.status.instrument,
                              r.status.enabled, r.status.connection,
                              r.status.account))

\* The loop of build_initial_statuses over the lines read.
RECURSIVE BackfillLines(_, _, _, _)
BackfillLines(lines, ps, subs, d) ==
  IF lines = << >> THEN d
  ELSE BackfillLines(Tail(lines), ps, subs,
                     BackfillOne(d, Allowed(Head(lines), subs,
                                            LineStatusOf[ps][Head(lines)])))

build_initial_statuses(fs, ps, subs) ==
  LET latest == newest_log_file(fs)
  IN IF latest = NoFile THEN << >>
     ELSE BackfillLines(_read_last_lines(fs, latest), ps, subs, << >>)

\* build_initial_statuses raises: one of the lines it reads does.
BuildRaises(fs, ps, subs) ==
  /\ newest_log_file(fs) # NoFile
  /\ \E l \in Range(_read_last_lines(fs, newest_log_file(fs))) :
       Allowed(l, subs, LineStatusOf[ps][l]).raised

\* for raw_line in _read_last_lines(latest): how many lines that is; none
\* without a log file.
TailRead(fs, latest) ==
  IF latest = NoFile THEN 0 ELSE Len(_read_last_lines(fs, latest))

\* statuses.update(initial)
RECURSIVE DictUpdate(_, _)
DictUpdate(d, other) ==
  IF other = << >> THEN d
  ELSE DictUpdate(DictSet(d, Head(other).key, Head(other).val), Tail(other))

\* A write that serializes the table as it was before the change.
WriteSnapshot_Stale(d, ok) ==
  /\ status_json' = IF ok THEN [exists |-> TRUE,
                                data |-> statuses_to_json(statuses, now)]
                    ELSE status_json
  /\ json_writes' = json_writes + 1

\* atomic_write_json(status_json_path, statuses_to_json(statuses)): the file
\* is replaced, or the write raises and the file is as it was.
WriteSnapshot(d, ok) ==
  /\ status_json' = IF ok THEN [exists |-> TRUE, data |-> statuses_to_json(d, now)]
                    ELSE status_json
  /\ json_writes' = json_writes + 1

\* An initial snapshot that is written only when the backfill found a record.
InitialSnapshot_Lazy ==
  /\ pc = "start"
  /\ pc' = "tail"
  /\ tail_read' = TailRead(files, newest_log_file(files))
  /\ IF BuildRaises(files, pattern_set, match_strategies)
     THEN UNCHANGED <<initial, tableVars>>
     ELSE \E built \in {build_initial_statuses(files, pattern_set,
                                                match_strategies)} :
            /\ initial' = built
            /\ statuses' = DictUpdate(statuses, built)
            /\ IF built = << >>
               THEN UNCHANGED <<status_json, json_writes>>
               ELSE \E ok \in BOOLEAN :
                      WriteSnapshot(DictUpdate(statuses, built), ok)
  /\ UNCHANGED <<envVars, cfgVars, tailVars, outVars, fnVars>>

\* Initial snapshot: parse the current log tail and write the snapshot.  An
\* exception of the backfill or of the write is caught and printed; one of
\* the backfill leaves the table empty and no write is tried.
InitialSnapshot ==
  /\ pc = "start"
  /\ pc' = "tail"
  /\ tail_read' = TailRead(files, newest_log_file(files))
  /\ IF BuildRaises(files, pattern_set, match_strategies)
     THEN UNCHANGED <<initial, tableVars>>
     ELSE \E built \in {build_initial_statuses(files, pattern_set,
                                                match_strategies)} :
            /\ initial' = built
            /\ statuses' = DictUpdate(statuses, built)
            /\ \E ok \in BOOLEAN :
                 WriteSnapshot(DictUpdate(statuses, built), ok)
  /\ UNCHANGED <<envVars, cfgVars, tailVars, outVars, fnVars>>

\* ------------------------------------------------------------------------
\* Live loop
\* ------------------------------------------------------------------------
\* What the loop body computes from a yielded line before it touches the
\* table: the fields, the post-extraction instrument check and the key.
Normalized(r, instrument) ==
  [skip |-> r.skip,
   raised |-> r.raised,
   key |-> <<r.status.name, instrument>>,
   rec |-> StrategyStatus(r.status.name, instrument, r.status.enabled,
                          r.status.connection, r.status.account)]

NormalizeInstrument(r) ==
  Normalized(r, IF r.status.instrument # << >>
                   /\ ~ValidInstrument(r.status.instrument)
                THEN << >> ELSE r.status.instrument)

LiveStatus(l, ps, subs) ==
  NormalizeInstrument(Allowed(l, subs, LineStatusOf[ps][l]))

\* A change test that takes every line for a change.
Changed_Always(d, key, rec) == TRUE

\* A change test that also compares the account.
Changed_WithAccount(d, key, rec) ==
  \/ ~DictHas(d, key)
  \/ DictGet(d, key).enabled # rec.enabled
  \/ DictGet(d, key).connection # rec.connection
  \/ DictGet(d, key).instrument # rec.instrument
  \/ DictGet(d, key).account # rec.account

\* changed = prev is None or prev.enabled != enabled
\*           or prev.connection != connection or prev.instrument != instrument
Changed(d, key, rec) ==
  \/ ~DictHas(d, key)
  \/ DictGet(d, key).enabled # rec.enabled
  \/ DictGet(d, key).connection # rec.connection
  \/ DictGet(d, key).instrument # rec.instrument

\* The sentinel of publisher.upsert_status.
EMPTY == <<"E", "M", "P", "T", "Y">>
\* A publisher that sends the fields as they are.
upsert_status_Raw(strategy_name, instrument, enabled, connection) ==
  [strategy_name |-> strategy_name, instrument |-> instrument,
   enabled |-> enabled, connection |-> connection]

\* payload of upsert_status: empties are sent as the sentinel.
upsert_status(strategy_name, instrument, enabled, connection) ==
  [strategy_name |-> strategy_name,
   instrument |-> IF instrument # << >> THEN instrument ELSE EMPTY,
   enabled |-> enabled,
   connection |-> IF connection # << >> THEN connection ELSE EMPTY]

\* A cooldown test that always lets the email go.
can_email_Always == TRUE

\* last_email_time is None or now - last_email_time > cooldown_min minutes
can_email ==
  \/ last_email_time = << >>
  \/ now - last_email_time[1] > cooldown_min

\* Optional email on change; send_email can raise, which is caught.
EmailOnChange ==
  IF email_on_change /\ can_email
  THEN /\ attempts' = Append(attempts, now)
       /\ \E sent \in BOOLEAN :
            IF sent
            THEN emails' = Append(emails, now) /\ last_email_time' = <<now>>
            ELSE UNCHANGED <<emails, last_email_time>>
  ELSE UNCHANGED <<emails, attempts, last_email_time>>

\* The loop body from the change test on, for the fields r of a line.
Reconcile(r) ==
  IF r.skip \/ ~Changed(statuses, r.key, r.rec)
  THEN UNCHANGED <<tableVars, outVars>>
  ELSE /\ statuses' = DictSet(statuses, r.key, r.rec)
       /\ notices' = Append(notices,
                            [name |-> r.rec.name,
                             instrument |-> r.rec.instrument,
                             enabled |-> r.rec.enabled,
                             connection |-> r.rec.connection])
       /\ \E ok \in BOOLEAN : WriteSnapshot(DictSet(statuses, r.key, r.rec), ok)
       /\ published' = Append(published,
                              upsert_status(r.rec.name, r.rec.instrument,
                                            r.rec.enabled, r.rec.connection))
       /\ EmailOnChange

\* An except clause that lets the exception of a line go.
AfterLine_Reraise(r) == IF r.raised THEN "fatal" ELSE "tail"

\* except Exception: print the exception and the line; the for statement
\* goes on with the next line.
AfterLine(r) == "tail"

\* The body of "for raw_line in tailer.lines()" for one line.
LoopBody(r) ==
  /\ Reconcile(r)
  /\ pc' = AfterLine(r)

\* A cursor that opens the newest file at its start.
OpenLatest_AtStart(fs, cur, h) ==
  LET latest == newest_log_file(fs)
  IN IF latest # NoFile /\ latest # cur
     THEN [switched |-> TRUE, current |-> latest,
           fh |-> [file |-> latest, pos |-> 0]]
     ELSE [switched |-> FALSE, current |-> cur, fh |-> h]

\* SimpleTailer.open_latest: switch to the newest file, positioned at its end.
OpenLatest(fs, cur, h) ==
  LET latest == newest_log_file(fs)
  IN IF latest # NoFile /\ latest # cur
     THEN [switched |-> TRUE, current |-> latest,
           fh |-> [file |-> latest, pos |-> Len(fs[latest].content)]]
     ELSE [switched |-> FALSE, current |-> cur, fh |-> h]

\* One pass of the loop of SimpleTailer.lines, and the loop body when the
\* pass yields a line.
Poll ==
  /\ pc = "tail"
  /\ LET t == OpenLatest(files, current, fh)
         ops == IF t.switched
                THEN Append(opens, [file |-> t.current,
                                    at |-> Len(files[t.current].content)])
                ELSE opens
     IN /\ current' = t.current
        /\ opens' = ops
        /\ IF t.fh = NoHandle \/ t.fh.pos >= Len(files[t.fh.file].content)
           THEN \* no file, or readline() returned "": sleep
                /\ fh' = t.fh
                /\ UNCHANGED <<pc, yielded, tableVars, outVars>>
           ELSE LET l == files[t.fh.file].content[t.fh.pos + 1]
                IN /\ fh' = [t.fh EXCEPT !.pos = @ + 1]
                   /\ yielded' = Append(yielded,
                                        [file |-> t.fh.file,
                                         idx |-> t.fh.pos + 1, line |-> l,
                                         open |-> Len(ops)])
                   /\ LoopBody(LiveStatus(l, pattern_set, match_strategies))
  /\ UNCHANGED <<envVars, cfgVars, initial, tail_read, fnVars>>

\* open(latest) raises in open_latest (the file is locked, or was removed
\* after it was listed): nothing in SimpleTailer.lines or around the for
\* statement of the loop catches it, main prints "Fatal error" and returns.
PollRaises ==
  /\ pc = "tail"
  /\ open_fails
  /\ newest_log_file(files) \notin {NoFile, current}
  /\ pc' = "fatal"
  /\ UNCHANGED <<envVars, cfgVars, initial, tail_read, tailVars, tableVars,
                 outVars, fnVars>>

\* ------------------------------------------------------------------------
\* Specification of the monitor
\* ------------------------------------------------------------------------
NoFiles == [f \in FileNames |-> [exists |-> FALSE, mtime |-> 0, content |-> << >>]]

\* The monitor has been constructed and nothing has run yet.
InitMonitor ==
  /\ files = NoFiles
  /\ now = 0
  /\ pc = "start"
  /\ initial = << >>
  /\ tail_read = TailRead(files, NoFile)
  /\ statuses = << >>
  /\ current = NoFile
  /\ fh = NoHandle
  /\ opens = << >>
  /\ status_json = NoSnapshot
  /\ json_writes = 0
  /\ notices = << >>
  /\ published = << >>
  /\ emails = << >>
  /\ attempts = << >>
  /\ last_email_time = << >>
  /\ yielded = << >>
  /\ disk = NoDisk
  /\ reader = NoRead

\* No call of the pure functions is under way.
InitNoCall ==
  /\ fn_stage = "idle"
  /\ fn_line = 1
  /\ fn_patterns = 1
  /\ fn_status = NoStatus
  /\ fn_statuses = << >>
  /\ fn_json = NoSnapshot.data

\* The runs explored: what the writer writes, into which files, whether the
\* run emails on change, whether opening a file can raise, and the patterns
\* and the allow-list of the configuration.
StatusVocab ==
  {LineId(L_AlphaMgcOn), LineId(L_AlphaMgcOff), LineId(L_AlphaMnqOn)}
EmailVocab ==
  {LineId(L_AlphaMgcOn), LineId(L_AlphaMgcOff), LineId(L_Noise)}
NameVocab ==
  {LineId(L_BetaOff), LineId(L_SlashOff), LineId(L_Gamma2025), LineId(L_Noise)}
RotateVocab ==
  {LineId(L_AlphaMgcOn)}
AccountVocab ==
  {LineId(L_AlphaAcctA1), LineId(L_AlphaAcctA2)}
ErrorVocab ==
  {LineId(L_BetaOff), LineId(L_FooOn)}
SkipVocab ==
  {LineId(L_Empty), LineId(L_Noise), LineId(L_DashOn), LineId(L_AlphaMgcOn)}
AllowVocab ==
  {LineId(L_BetaOff), LineId(L_AlphaMgcOn)}

Run(lines, names, email, faulty, ps, subs) ==
  [vocab |-> lines, dir |-> names, email |-> email, faulty |-> faulty,
   ps |-> ps, subs |-> subs]

Runs ==
  { Run(StatusVocab, {"log.1.txt"}, FALSE, FALSE, 1, NoAllowList),
    Run(EmailVocab, {"log.1.txt"}, TRUE, FALSE, 1, NoAllowList),
    Run(NameVocab, {"log.1.txt"}, FALSE, FALSE, 1, NoAllowList),
    Run(RotateVocab, FileNames, FALSE, FALSE, 1, NoAllowList),
    Run(AccountVocab, {"log.1.txt"}, FALSE, FALSE, 1, NoAllowList),
    Run(RotateVocab, TxtNames, FALSE, TRUE, 1, NoAllowList),
    Run(ErrorVocab, {"log.1.txt"}, FALSE, FALSE, UnclosedSet, NoAllowList),
    Run(SkipVocab, {"log.1.txt"}, FALSE, FALSE, 1, NoAllowList),
    Run(AllowVocab, {"log.1.txt"}, FALSE, FALSE, 1, AlphaOnly) }

Init ==
  /\ InitMonitor
  /\ InitNoCall
  /\ \E r \in Runs :
       /\ vocab = r.vocab
       /\ pattern_set = r.ps
       /\ match_strategies = r.subs
       /\ dir = r.dir
       /\ email_on_change = r.email
       /\ open_fails = r.faulty

Next ==
  \/ \E f \in FileNames : WriterCreate(f)
  \/ \E f \in FileNames, l \in LineIds : WriterAppend(f, l)
  \/ TimePasses
  \/ InitialSnapshot
  \/ Poll
  \/ PollRaises

Spec == Init /\ [][Next]_vars

\* ------------------------------------------------------------------------
\* Specification of the Pattern Matcher and the Field Completer alone
\* ------------------------------------------------------------------------
\* The monitor is idle with the default configuration.
InitIdle ==
  /\ InitMonitor
  /\ vocab = {}
  /\ dir = {}
  /\ pattern_set = 1
  /\ match_strategies = NoAllowList
  /\ email_on_change = FALSE
  /\ open_fails = FALSE

\* A call with any line of the model and any pattern set.
InitMatch ==
  /\ InitIdle
  /\ fn_stage = "call"
  /\ fn_line \in LineIds
  /\ fn_patterns \in PatternSetIds
  /\ fn_status = NoStatus
  /\ fn_statuses = << >>
  /\ fn_json = NoSnapshot.data

\* matched, status = parse_with_patterns(raw_line, patterns)
Match ==
  /\ fn_stage = "call"
  /\ fn_stage' = "matched"
  /\ fn_status' = parse_with_patterns(LOG_LINES[fn_line], PATTERN_SETS[fn_patterns])
  /\ UNCHANGED <<envVars, cfgVars, monitorVars, fn_line, fn_patterns,
                 fn_statuses, fn_json, disk, reader>>

\* status = fill_missing_fields(raw_line, status, patterns), if matched
Complete ==
  /\ fn_stage = "matched"
  /\ fn_status.matched
  /\ fn_stage' = "completed"
  /\ fn_status' =
       [fn_status EXCEPT !.status =
          fill_missing_fields(LOG_LINES[fn_line], fn_status.status,
                              PATTERN_SETS[fn_patterns])]
  /\ UNCHANGED <<envVars, cfgVars, monitorVars, fn_line, fn_patterns,
                 fn_statuses, fn_json, disk, reader>>

NextMatch == Match \/ Complete

SpecMatch == InitMatch /\ [][NextMatch]_vars

\* ------------------------------------------------------------------------
\* Specification of statuses_to_json alone
\* ------------------------------------------------------------------------
MaxTable == 2

N_Beta == <<"B", "e", "t", "a">>
N_alpha == <<"a", "l", "p", "h", "a">>
N_Alpha == <<"A", "l", "p", "h", "a">>
I_MNQ_DEC25 == <<"M", "N", "Q", " ", "D", "E", "C", "2", "5">>
I_MGC_DEC25 == <<"M", "G", "C", " ", "D", "E", "C", "2", "5">>
I_AAPL == <<"A", "A", "P", "L">>
C_Sim101 == <<"S", "i", "m", "1", "0", "1">>

\* Entries of a table: a record under its own (name, instrument).
TableEntries ==
  { [key |-> <<n, i>>, val |-> StrategyStatus(n, i, TRUE, C_Sim101, << >>)] :
      n \in {N_Beta, N_alpha, N_Alpha}, i \in {I_MNQ_DEC25, I_AAPL, << >>} }

\* The dicts of at most n entries, in every insertion order.
RECURSIVE Tables(_)
Tables(n) ==
  IF n = 0 THEN { << >> }
  ELSE LET smaller == Tables(n - 1)
       IN smaller \cup
          { Append(d, e) : <<d, e>> \in
              { x \in smaller \X TableEntries :
                  Len(x[1]) = n - 1 /\ ~DictHas(x[1], x[2].key) } }

InitSnapshot ==
  /\ InitIdle
  /\ fn_stage = "call"
  /\ fn_line = 1
  /\ fn_patterns = 1
  /\ fn_status = NoStatus
  /\ fn_statuses \in Tables(MaxTable)
  /\ fn_json = NoSnapshot.data

\* statuses_to_json(statuses)
Serialize ==
  /\ fn_stage = "call"
  /\ fn_stage' = "returned"
  /\ fn_json' = statuses_to_json(fn_statuses, now)
  /\ UNCHANGED <<envVars, cfgVars, monitorVars, fn_line, fn_patterns,
                 fn_status, fn_statuses, disk, reader>>

NextSnapshot == Serialize

SpecSnapshot == InitSnapshot /\ [][NextSnapshot]_vars

\* ------------------------------------------------------------------------
\* Specification of atomic_write_json alone, with a reader of the path
\* ------------------------------------------------------------------------
MaxWrites == 2

\* The text json.dump writes, in the pieces it reaches the file in: the
\* opening with updated_at, one piece per strategy, the closing.
Piece(kind, at, entry) == [kind |-> kind, at |-> at, entry |-> entry]
NoEntry == StrategyStatus(<< >>, << >>, FALSE, << >>, << >>)
Dumped(data) ==
  <<Piece("open", data.updated_at, NoEntry)>>
  \o [i \in 1..Len(data.strategies) |->
        Piece("entry", data.updated_at, data.strategies[i])]
  \o <<Piece("close", data.updated_at, NoEntry)>>

\* The tables the snapshots are written from.
WriteTables ==
  { << >>,
    <<[key |-> <<N_alpha, I_AAPL>>,
       val |-> StrategyStatus(N_alpha, I_AAPL, TRUE, C_Sim101, << >>)]>>,
    <<[key |-> <<N_Beta, I_MNQ_DEC25>>,
       val |-> StrategyStatus(N_Beta, I_MNQ_DEC25, FALSE, C_Sim101, << >>)],
      [key |-> <<N_alpha, I_AAPL>>,
       val |-> StrategyStatus(N_alpha, I_AAPL, TRUE, C_Sim101, << >>)]>> }

\* A file name of the model that is written in place of the temp name.
TmpName_InPlace == "path"

\* tmp = path.with_suffix(path.suffix + ".tmp")
TmpName == "tmp"

InitWrite ==
  /\ InitIdle
  /\ InitNoCall

\* atomic_write_json(status_json_path, statuses_to_json(statuses)) is called.
AwCall ==
  /\ fn_stage \in {"idle", "returned", "raised"}
  /\ json_writes < MaxWrites
  /\ \E t \in WriteTables :
       /\ fn_statuses' = t
       /\ fn_json' = statuses_to_json(t, json_writes + 1)
  /\ fn_stage' = "open"
  /\ json_writes' = json_writes + 1
  /\ UNCHANGED <<envVars, cfgVars, pc, initial, tail_read, tailVars, statuses,
                 status_json, outVars, fn_line, fn_patterns, fn_status,
                 disk, reader>>

\* open(tmp, "w"): the file is created, or truncated if it is there.
AwOpen ==
  /\ fn_stage = "open"
  /\ fn_stage' = "dump"
  /\ disk' = [disk EXCEPT ![TmpName] = [exists |-> TRUE, chunks |-> << >>]]
  /\ UNCHANGED <<envVars, cfgVars, monitorVars, fn_line, fn_patterns,
                 fn_status, fn_statuses, fn_json, reader>>

\* json.dump: the next piece of the text reaches the file; after the last
\* one the with block closes the file.
AwDump ==
  /\ fn_stage = "dump"
  /\ IF Len(disk[TmpName].chunks) < Len(Dumped(fn_json))
     THEN /\ disk' = [disk EXCEPT ![TmpName].chunks =
                        Append(@, Dumped(fn_json)[Len(@) + 1])]
          /\ fn_stage' = fn_stage
     ELSE /\ disk' = disk
          /\ fn_stage' = "replace"
  /\ UNCHANGED <<envVars, cfgVars, monitorVars, fn_line, fn_patterns,
                 fn_status, fn_statuses, fn_json, reader>>

\* os.replace(tmp, path): the path names the temp file's content in one step.
AwReplace ==
  /\ fn_stage = "replace"
  /\ fn_stage' = "returned"
  /\ disk' = IF TmpName = "path" THEN disk
             ELSE [path |-> disk[TmpName], tmp |-> Missing]
  /\ status_json' = [exists |-> TRUE, data |-> fn_json]
  /\ UNCHANGED <<envVars, cfgVars, pc, initial, tail_read, tailVars, statuses,
                 json_writes, outVars, fn_line, fn_patterns, fn_status,
                 fn_statuses, fn_json, reader>>

\* open, write or os.replace raises: the call ends where it is.
AwRaise ==
  /\ fn_stage \in {"open", "dump", "replace"}
  /\ fn_stage' = "raised"
  /\ UNCHANGED <<envVars, cfgVars, monitorVars, fn_line, fn_patterns,
                 fn_status, fn_statuses, fn_json, disk, reader>>

\* A reader opens the snapshot path and reads it to the end.
ReaderRead ==
  /\ reader' = [done |-> TRUE, got |-> disk["path"]]
  /\ UNCHANGED <<envVars, cfgVars, monitorVars, fn_stage, fn_line,
                 fn_patterns, fn_status, fn_statuses, fn_json, disk>>

NextWrite ==
  \/ AwCall
  \/ AwOpen
  \/ AwDump
  \/ AwReplace
  \/ AwRaise
  \/ ReaderRead

SpecWrite == InitWrite /\ [][NextWrite]_vars

\* ------------------------------------------------------------------------
\* Specification of SimpleTailer alone, with the file character by character
\* ------------------------------------------------------------------------
\* Here a file's content is its characters, the read offset counts
\* characters, and the writer appends in writes that need not end a line.
MaxChars == 4

\* What one write of the writer appends: the first bytes of a line, a whole
\* line, or the terminator of the line begun before.
Chunks == { <<"a">>, <<"a", "\n">>, <<"\n">> }

\* The monitor has been constructed; the writer will use one log file.
InitTail ==
  /\ InitMonitor
  /\ InitNoCall
  /\ vocab = {}
  /\ dir = {"log.1.txt"}
  /\ pattern_set = 1
  /\ match_strategies = NoAllowList
  /\ email_on_change = FALSE
  /\ open_fails = FALSE

\* The writer appends the characters of one write to the log file.
TailWrite(f, chunk) ==
  /\ files[f].exists
  /\ Len(files[f].content) + Len(chunk) <= MaxChars
  /\ files' = [files EXCEPT ![f].content = @ \o chunk,
                            ![f].mtime = NextMtime(files)]
  /\ UNCHANGED <<now, cfgVars, monitorVars, fnVars>>

\* The offset of the first terminator at or after offset i, else the end of
\* the text.
RECURSIVE LineEnd(_, _)
LineEnd(text, i) ==
  IF i >= Len(text) \/ text[i] = "\n" THEN i
  ELSE LineEnd(text, i + 1)

\* fh.readline(): the characters from the offset through the next terminator,
\* or through the end of the file when there is none; "" at the end.
readline(text, pos) ==
  IF pos >= Len(text) THEN << >>
  ELSE Slice(text, pos + 1, LineEnd(text, pos + 1))

\* One pass of the loop of SimpleTailer.lines: open_latest, readline, and
\* yield line.rstrip("\r\n") unless readline returned "".
TailPoll ==
  /\ \E t \in {OpenLatest(files, current, fh)} :
       /\ current' = t.current
       /\ opens' = IF t.switched
                   THEN Append(opens, [file |-> t.current, at |-> t.fh.pos])
                   ELSE opens
       /\ IF t.fh = NoHandle \/ readline(files[t.fh.file].content, t.fh.pos) = << >>
          THEN /\ fh' = t.fh
               /\ UNCHANGED yielded
          ELSE /\ fh' = [t.fh EXCEPT !.pos =
                           @ + Len(readline(files[t.fh.file].content, t.fh.pos))]
               /\ yielded' =
                    Append(yielded,
                           [file |-> t.fh.file, idx |-> t.fh.pos,
                            line |-> RStrip(readline(files[t.fh.file].content,
                                                     t.fh.pos),
                                            {"\r", "\n"}),
                            open |-> Len(opens')])
  /\ UNCHANGED <<envVars, cfgVars, pc, initial, tail_read, tableVars, outVars,
                 fnVars>>

NextTail ==
  \/ WriterCreate("log.1.txt")
  \/ \E chunk \in Chunks : TailWrite("log.1.txt", chunk)
  \/ TailPoll

SpecTail == InitTail /\ [][NextTail]_vars

\* ------------------------------------------------------------------------
\* Properties
\* ------------------------------------------------------------------------
N_gamma == <<"g", "a", "m", "m", "a">>

\* The lines yielded so far, oldest first.
YieldedLines == [n \in 1..Len(yielded) |-> yielded[n].line]

\* This step is a pass of the live loop that yields a line.
LineStep == Len(yielded') = Len(yielded) + 1

\* The line such a step yields.
StepLine == yielded'[Len(yielded')].line

\* What the loop body computes from that line before it touches the table.
StepStatus == LiveStatus(StepLine, pattern_set, match_strategies)

\* C1: after the live loop has processed the single line
\* "Strategy 'Alpha' on MGC DEC25 enabled on connection Sim101" against an
\* empty Status Table, the table holds exactly one record: name "Alpha",
\* instrument "MGC DEC25", enabled, connection "Sim101".
C1_AlphaRecordAsWritten ==
  (initial = << >> /\ YieldedLines = <<LineId(L_AlphaMgcOn)>>) =>
    /\ Len(statuses) = 1
    /\ statuses[1].val.name = N_Alpha
    /\ statuses[1].val.instrument = I_MGC_DEC25
    /\ statuses[1].val.enabled
    /\ statuses[1].val.connection = C_Sim101

\* The step raises n change notices, n snapshot writes and n publishes.
C2_Events(n) ==
  /\ Len(notices') = Len(notices) + n
  /\ json_writes' = json_writes + n
  /\ Len(published') = Len(published) + n

\* The step raises nothing and leaves the table and the snapshot alone.
C2_Quiet ==
  UNCHANGED <<statuses, status_json, json_writes, notices, published,
              emails, last_email_time>>

\* The stored record for the line's key has the line's enabled, connection
\* and instrument.
C2_SameFields(r) ==
  /\ ~r.skip
  /\ DictHas(statuses, r.key)
  /\ DictGet(statuses, r.key).enabled = r.rec.enabled
  /\ DictGet(statuses, r.key).connection = r.rec.connection
  /\ DictGet(statuses, r.key).instrument = r.rec.instrument

C2_LineStep(l, r) ==
  /\ C2_Events(0) \/ C2_Events(1)
  /\ (yielded # << >> /\ yielded[Len(yielded)].line = l) => C2_Quiet
  /\ C2_SameFields(r) => C2_Quiet
  /\ r.skip => C2_Quiet
  /\ (~r.skip /\ ~DictHas(statuses, r.key)) => C2_Events(1)

\* C2: a live line that repeats the line yielded just before it, or whose
\* (enabled, connection, instrument) equal those of the stored record for its
\* key, causes no change notice, no snapshot write, no publish and no email;
\* a line for a key the table does not hold causes exactly one notice, one
\* snapshot write and one publish, and no line causes more than one of each.
C2_NoEventWithoutChange ==
  [][LineStep => C2_LineStep(StepLine, StepStatus)]_vars

\* The same status line was yielded twice in a row on an empty table: one
\* change notice, and one snapshot write after the initial one.
C2_SameLineTwice ==
  /\ initial = << >>
  /\ Len(yielded) = 2
  /\ yielded[1].line = yielded[2].line
  /\ yielded[1].line \in StatusVocab
  /\ Len(notices) = 1
  /\ Len(published) = 1
  /\ json_writes = 2

\* Some pattern of the list is found in the line (re.search, IGNORECASE).
MatchesAny(pats, low) ==
  \E i \in 1..Len(pats) : ReSearch(pats[i], low, TRUE).ok

\* The Pattern Matcher has returned.
Matched == fn_stage \in {"matched", "completed"}

C3_EnableWins(ps, low) ==
  MatchesAny(ps.enabled, low) => fn_status.matched /\ fn_status.status.enabled

C3_DisableWins(ps, low) ==
  MatchesAny(ps.disabled, low) => fn_status.matched /\ ~fn_status.status.enabled

C3_DisableAlone(ps, low) ==
  (MatchesAny(ps.disabled, low) /\ ~MatchesAny(ps.enabled, low)) =>
    fn_status.matched /\ ~fn_status.status.enabled

\* C3 as stated: a line that matches an enable-pattern gives enabled = true,
\* and a line that matches a disable-pattern gives enabled = false.
C3_PolarityBothWays ==
  Matched =>
    /\ C3_EnableWins(PATTERN_SETS[fn_patterns], StrLower(LOG_LINES[fn_line]))
    /\ C3_DisableWins(PATTERN_SETS[fn_patterns], StrLower(LOG_LINES[fn_line]))

\* C3: a line that matches an enable-pattern gives enabled = true; a line
\* that matches a disable-pattern and no enable-pattern gives enabled = false.
C3_PolarityEnableFirst ==
  Matched =>
    /\ C3_EnableWins(PATTERN_SETS[fn_patterns], StrLower(LOG_LINES[fn_line]))
    /\ C3_DisableAlone(PATTERN_SETS[fn_patterns], StrLower(LOG_LINES[fn_line]))

\* A line that matches an enable-pattern and a disable-pattern was matched.
C3_BothListsMatch ==
  /\ fn_stage = "matched"
  /\ fn_line = LineId(L_FooOnThenOff)
  /\ MatchesAny(PATTERN_SETS[fn_patterns].enabled, StrLower(LOG_LINES[fn_line]))
  /\ MatchesAny(PATTERN_SETS[fn_patterns].disabled, StrLower(LOG_LINES[fn_line]))
  /\ fn_status.matched
  /\ fn_status.status.enabled

\* The patterns that take the name between quotes, and the unquoted fallbacks.
StrictPatterns ==
  {PatNinjaScript(W_enabling), PatStrategyOn(W_enabled),
   PatVerbStrategyFor(W_enabled), PatNinjaScript(W_disabling),
   PatStrategyOn(W_disabled), PatVerbStrategyFor(W_disabled),
   PatDisabledQuoted}
LoosePatterns ==
  {PatBareStrategy(W_enabled), PatBareStrategy(W_disabled)}

\* The patterns of a list that are of a kind and are found in the line.
FoundOf(pats, low, kind) ==
  { i \in 1..Len(pats) : pats[i] \in kind /\ ReSearch(pats[i], low, TRUE).ok }

\* What the strict patterns of a list that are found in the line capture.
StrictCaptures(pats, low, enabled) ==
  { Captured(ReSearch(pats[i], low, TRUE), enabled) :
      i \in FoundOf(pats, low, StrictPatterns) }

C4_Resolved(ps, low) ==
  ( /\ FoundOf(ps.enabled, low, StrictPatterns)
         \cup FoundOf(ps.disabled, low, StrictPatterns) # {}
    /\ FoundOf(ps.enabled, low, LoosePatterns)
         \cup FoundOf(ps.disabled, low, LoosePatterns) # {} ) =>
    /\ fn_status.matched
    /\ fn_status.status \in StrictCaptures(ps.enabled, low, TRUE)
                            \cup StrictCaptures(ps.disabled, low, FALSE)

\* C4: for a line that matches a strict quoted-name pattern and a loose
\* fallback pattern, in whichever lists, the Pattern Matcher returns the
\* polarity and the captures of a strict pattern.
C4_StrictBeforeLoose ==
  fn_stage = "matched" =>
    C4_Resolved(PATTERN_SETS[fn_patterns], StrLower(LOG_LINES[fn_line]))

\* C5: no record of the Status Table has a name containing "/".
C5_NoSlashInNames ==
  \A i \in 1..Len(statuses) : "/" \notin Range(statuses[i].val.name)

\* C6: once the loop has processed 'Alpha' on MGC DEC25 and 'Alpha' on
\* MNQ DEC25, the Status Table holds two records of that name, one per
\* instrument.
C6_OneRecordPerInstrument ==
  ( /\ LineId(L_AlphaMgcOn) \in Range(YieldedLines)
    /\ LineId(L_AlphaMnqOn) \in Range(YieldedLines) ) =>
    \E i, j \in 1..Len(statuses) :
      /\ statuses[i].val.name = statuses[j].val.name
      /\ statuses[i].val.instrument # statuses[j].val.instrument

\* Every record is under its own (name, instrument), and no key occurs twice.
C7_Keyed(d) ==
  \A i \in 1..Len(d) :
    /\ d[i].key = <<d[i].val.name, d[i].val.instrument>>
    /\ \A j \in 1..Len(d) : d[j].key = d[i].key => i = j

\* A live line for a key the backfill seeded leaves the size and the keys of
\* the table as they were, and the record under the key has the line's values.
C7_Replaces(r) ==
  (~r.skip /\ DictHas(initial, r.key)) =>
    /\ Len(statuses') = Len(statuses)
    /\ DictKeys(statuses') = DictKeys(statuses)
    /\ DictGet(statuses', r.key).enabled = r.rec.enabled
    /\ DictGet(statuses', r.key).connection = r.rec.connection

C7_Step ==
  /\ C7_Keyed(statuses')
  /\ C7_Keyed(initial')
  /\ Len(statuses') >= Len(statuses)
  /\ \A i \in 1..Len(statuses) : statuses'[i].key = statuses[i].key
  /\ LineStep => C7_Replaces(StepStatus)

\* C7: every record of the Status Table is stored under the key
\* (record.name, record.instrument) and no key occurs twice; the key of a
\* record never changes; a live line that resolves to a key seeded by the
\* backfill replaces that record and leaves the size of the table unchanged.
C7_KeyUniqueness == [][C7_Step]_vars

\* A record seeded by the backfill has been replaced by a live line.
C7_BackfilledReplaced ==
  /\ Len(initial) = 1
  /\ Len(statuses) = 1
  /\ statuses[1].key = initial[1].key
  /\ statuses[1].val.enabled # initial[1].val.enabled
  /\ yielded # << >>

\* (lower-cased name, lower-cased instrument) of a snapshot entry
C8_Order(s) == <<StrLower(s.name), StrLower(s.instrument)>>

C8_Snapshot(d, out) ==
  /\ Len(out) = Cardinality(DictKeys(d))
  /\ \A k \in DictKeys(d) :
       Cardinality({ i \in 1..Len(out) : out[i] = DictGet(d, k) }) = 1
  /\ \A i, j \in 1..Len(out) :
       i < j => ~KeyLess(C8_Order(out[j]), C8_Order(out[i]))
  /\ DictKeys(d) = {<<N_Beta, I_MNQ_DEC25>>, <<N_alpha, I_AAPL>>} =>
       /\ out[1].name = N_alpha
       /\ out[2].name = N_Beta

\* C8: the snapshot of a Status Table holds exactly one entry per key of the
\* table, in non-decreasing order of (lower-cased name, lower-cased
\* instrument); a table holding ("Beta","MNQ DEC25") and ("alpha","AAPL")
\* gives alpha then Beta, whatever the insertion order.
C8_SnapshotSorted ==
  fn_stage = "returned" => C8_Snapshot(fn_statuses, fn_json.strategies)

\* The table holding Beta (inserted first) and alpha has been serialized.
C8_BetaThenAlpha ==
  /\ fn_stage = "returned"
  /\ Len(fn_statuses) = 2
  /\ fn_statuses[1].key = <<N_Beta, I_MNQ_DEC25>>
  /\ fn_statuses[2].key = <<N_alpha, I_AAPL>>
  /\ fn_json.strategies[1].name = N_alpha

\* Every line yielded is of the file the cursor had open, and was appended
\* to it after that open.
C9_AfterOpen ==
  \A n \in 1..Len(yielded) :
    /\ yielded[n].open \in 1..Len(opens)
    /\ opens[yielded[n].open].file = yielded[n].file
    /\ yielded[n].idx > opens[yielded[n].open].at

\* No line is yielded from a file the cursor has switched away from.
C9_NeverBack ==
  \A n \in 1..Len(yielded) :
    \A j \in 1..(yielded[n].open - 1) : opens[j].file # yielded[n].file

\* C9 as stated: no line that was in the new file when the cursor opened it
\* is emitted, and once the cursor has switched away from a file no line of
\* that file is emitted.
C9_OldFileNeverRead == C9_AfterOpen /\ C9_NeverBack

\* The cursor is on the file of its last open, and that file differs from
\* the one it had before.
C9_Cursor ==
  /\ current = IF opens = << >> THEN NoFile ELSE opens[Len(opens)].file
  /\ fh.file = current
  /\ \A j \in 2..Len(opens) : opens[j].file # opens[j - 1].file

\* A pass switches exactly when the file newest_log_file selects is not the
\* current one; it then opens that file at its end and yields nothing.
C9_Switch ==
  (pc = "tail" /\ UNCHANGED <<pc, files, now>>) =>
    IF newest_log_file(files) \notin {NoFile, current}
    THEN /\ Len(opens') = Len(opens) + 1
         /\ current' = newest_log_file(files)
         /\ fh' = [file |-> current', pos |-> Len(files[current'].content)]
         /\ yielded' = yielded
    ELSE opens' = opens

\* C9: when the file newest_log_file selects differs from the open one, the
\* cursor switches to it positioned at its end; every line emitted is of the
\* file open at that time and was appended to it after that open (and after
\* every earlier open of that file), so no line that was in a file when the
\* cursor opened it is emitted.
C9_OpenedAtEnd ==
  [][ /\ C9_AfterOpen'
      /\ C9_Cursor'
      /\ \A n \in 1..Len(yielded') : \A j \in 1..yielded'[n].open :
           opens'[j].file = yielded'[n].file => yielded'[n].idx > opens'[j].at
      /\ C9_Switch ]_vars

\* The cursor switched to a second file that already held a line, and has
\* emitted a line appended to it afterwards.
C9_Rotated ==
  \E n \in 1..Len(yielded) :
    /\ yielded[n].open >= 2
    /\ opens[yielded[n].open].at >= 1
    /\ yielded[n].file # opens[1].file

\* The shapes of an instrument, character by character.
C10_Months ==
  {<<"J","A","N">>, <<"F","E","B">>, <<"M","A","R">>, <<"A","P","R">>,
   <<"M","A","Y">>, <<"J","U","N">>, <<"J","U","L">>, <<"A","U","G">>,
   <<"S","E","P">>, <<"O","C","T">>, <<"N","O","V">>, <<"D","E","C">>}

C10_All(s, cls) == \A i \in 1..Len(s) : s[i] \in cls

\* 1-6 capital letters
C10_Symbol(s) == Len(s) \in 1..6 /\ C10_All(s, Upper)

\* MMMYY or MMM YY
C10_MonthYear(s) ==
  /\ Len(s) \in {5, 6}
  /\ Slice(s, 1, 3) \in C10_Months
  /\ Len(s) = 6 => s[4] \in Space
  /\ C10_All(Slice(s, Len(s) - 1, Len(s)), Digit)

\* MM-YY
C10_MonthDashYear(s) ==
  /\ Len(s) = 5
  /\ s[3] = "-"
  /\ C10_All(<<s[1], s[2], s[4], s[5]>>, Digit)

C10_Shape(s) ==
  \/ C10_Symbol(s)
  \/ \E k \in 1..6, w \in 1..Len(s) :
       /\ k + w < Len(s)
       /\ C10_Symbol(Slice(s, 1, k))
       /\ C10_All(Slice(s, k + 1, k + w), Space)
       /\ \/ C10_MonthYear(Slice(s, k + w + 1, Len(s)))
          \/ C10_MonthDashYear(Slice(s, k + w + 1, Len(s)))

C10_Table(d) ==
  \A i \in 1..Len(d) :
    d[i].val.instrument = << >> \/ C10_Shape(d[i].val.instrument)

\* C10: every record of the Status Table, seeded by the backfill or stored
\* by the live loop, has an instrument that is empty or of one of the three
\* shapes SYMBOL MMMYY, SYMBOL MM-YY, SYMBOL; a token such as "2025" is
\* stored as empty.
C10_InstrumentShape == C10_Table(statuses) /\ C10_Table(initial)

\* The backfill has seeded the record of the line
\* "Strategy 'Gamma' on 2025 enabled on connection Sim101".
C10_YearCleared ==
  /\ LineId(L_Gamma2025) \in Range(files["log.1.txt"].content)
  /\ \E i \in 1..Len(initial) :
       /\ initial[i].val.name = N_gamma
       /\ initial[i].val.instrument = << >>

\* The values a live line resolving to a key has differ from the stored
\* record in enabled, connection or instrument, or no record is stored.
C11_Differs(r) ==
  \/ \A i \in 1..Len(statuses) : statuses[i].key # r.key
  \/ \E i \in 1..Len(statuses) :
       /\ statuses[i].key = r.key
       /\ \/ statuses[i].val.enabled # r.rec.enabled
          \/ statuses[i].val.connection # r.rec.connection
          \/ statuses[i].val.instrument # r.rec.instrument

C11_LineStep(r) ==
  ~r.skip =>
    /\ Len(notices') = Len(notices) + 1 <=> C11_Differs(r)
    /\ statuses' # statuses => C11_Differs(r)
    /\ ~C11_Differs(r) => UNCHANGED <<statuses, status_json, json_writes, published>>

\* C11: for a live line resolving to key k a change is declared if and only
\* if k has no stored record or the stored enabled, connection or instrument
\* differs; a line that differs from the stored record only in account
\* declares no change and leaves the stored record, its account included.
C11_ChangeTest ==
  [][LineStep => C11_LineStep(StepStatus)]_vars

\* A line that differs from the stored record only in its account has been
\* processed: one change, and the first line's account is still stored.
C11_AccountOnly ==
  /\ initial = << >>
  /\ YieldedLines = <<LineId(L_AlphaAcctA1), LineId(L_AlphaAcctA2)>>
  /\ Len(notices) = 1
  /\ Len(statuses) = 1
  /\ statuses[1].val.account = <<"a", "1">>

\* What a reader gets from a snapshot file that holds d, or from none.
C12_Whole(snapshot) ==
  IF snapshot.exists
  THEN [exists |-> TRUE, chunks |-> Dumped(snapshot.data)]
  ELSE Missing

\* C12: a reader that opens the snapshot path at any moment, before, during
\* or after a write, gets the previous complete snapshot or the new complete
\* one (or no file, before the first snapshot), never a part of one.
C12_AtomicSnapshot ==
  [][reader' # reader =>
       reader'.got \in {C12_Whole(status_json), C12_Whole(status_json')}]_vars

\* A reader has read the previous snapshot while the next one was being
\* written to the temp file.
C12_ReadDuringWrite ==
  /\ fn_stage = "dump"
  /\ json_writes = 2
  /\ disk["tmp"].exists
  /\ disk["tmp"].chunks # << >>
  /\ status_json.exists
  /\ reader.done
  /\ reader.got = C12_Whole(status_json)
  /\ disk["tmp"].chunks # reader.got.chunks

\* C13: an error of listing, stat-ing or opening a log file during a poll
\* does not terminate the monitor.
C13_CursorNeverFatal == pc # "fatal"

\* The cooldown window is open: no email was sent yet, or the last one was
\* sent more than cooldown_min minutes ago.
C14_WindowOpen ==
  emails = << >> \/ now - emails[Len(emails)] > cooldown_min

C14_Step ==
  /\ attempts' # attempts =>
       /\ email_on_change
       /\ Len(notices') = Len(notices) + 1
       /\ C14_WindowOpen
       /\ attempts' = Append(attempts, now)
  /\ emails' # emails =>
       /\ attempts' # attempts
       /\ emails' = Append(emails, now)
  /\ emails' = emails => last_email_time' = last_email_time
  /\ \A i, j \in 1..Len(emails') :
       i < j => emails'[j] - emails'[i] > cooldown_min

\* C14: send_email is called for a change only if no email was sent
\* successfully yet or more than cooldown_min minutes have passed since the
\* last successful send; two successful sends are more than the cooldown
\* apart; a failed send leaves the window as it was; an email is only ever
\* sent in the step of the change it is about.
C14_EmailCooldown == [][C14_Step]_vars

\* Two emails were sent, a cooldown apart, and a change that fell inside the
\* window was not emailed.
C14_Suppressed ==
  /\ Len(emails) = 2
  /\ Len(attempts) = 2
  /\ Len(notices) = 3

\* Processing of the n-th line the cursor yielded raised an exception.
C15_RaisedAt(n) ==
  LiveStatus(yielded[n].line, pattern_set, match_strategies).raised

C15_Step ==
  LineStep =>
    /\ pc' = "tail"
    /\ StepStatus.raised => UNCHANGED <<tableVars, outVars>>
    /\ (\E n \in 1..Len(yielded) : C15_RaisedAt(n)) => C11_LineStep(StepStatus)

\* C15: a live line whose processing raises (here re.error, from a pattern
\* of config.json that does not compile and that this line reaches) leaves
\* the table, the snapshot and the outputs as they were and the loop running;
\* the lines after it are processed like any line: a change is declared
\* exactly when the change test says so.
C15_LineSafetyNet == [][C15_Step]_vars

\* The first live line raised and the second one was stored as a change.
C15_NextLineProcessed ==
  /\ Len(yielded) = 2
  /\ C15_RaisedAt(1)
  /\ Len(notices) = 1
  /\ Len(statuses) = 1
  /\ pc = "tail"

\* The tail the backfill reads: the lines of the newest log file, if any.
C16_Tail ==
  IF newest_log_file(files) = NoFile THEN << >>
  ELSE files[newest_log_file(files)].content

\* What the pipeline makes of line l under the configuration of the run.
C16_Line(l) ==
  Allowed(l, match_strategies, LineStatusOf[pattern_set][l])

C16_Key(l) == <<C16_Line(l).status.name, C16_Line(l).status.instrument>>

C16_Record(l) ==
  StrategyStatus(C16_Line(l).status.name, C16_Line(l).status.instrument,
                 C16_Line(l).status.enabled, C16_Line(l).status.connection,
                 C16_Line(l).status.account)

\* d holds exactly the keys the lines resolve to, each with the record of
\* the last line that resolves to it.
C16_LatestOf(d, lines) ==
  /\ DictKeys(d) =
       { C16_Key(lines[i]) : i \in { n \in 1..Len(lines) : ~C16_Line(lines[n]).skip } }
  /\ \A i \in 1..Len(lines) :
       (/\ ~C16_Line(lines[i]).skip
        /\ \A j \in (i + 1)..Len(lines) :
             C16_Line(lines[j]).skip \/ C16_Key(lines[j]) # C16_Key(lines[i]))
       => DictGet(d, C16_Key(lines[i])) = C16_Record(lines[i])

\* The startup step: backfill and initial snapshot.
C16_Startup == pc = "start" /\ pc' = "tail"

C16_Step ==
  /\ LineStep => pc = "tail"
  /\ (yielded = << >> /\ pc = "tail") => json_writes <= 1
  /\ C16_Startup =>
       IF \E i \in 1..Len(C16_Tail) : C16_Line(C16_Tail[i]).raised
       THEN UNCHANGED <<statuses, status_json, json_writes>>
       ELSE /\ json_writes' = 1
            /\ C16_LatestOf(statuses', C16_Tail)
            /\ \/ status_json' = status_json
               \/ status_json' =
                    [exists |-> TRUE,
                     data |-> [updated_at |-> now,
                               strategies |-> SortedValues(statuses')]]

C17_Yielded(n) ==
  LiveStatus(yielded[n].line, pattern_set, match_strategies)

\* The live lines so far that resolved to key k.
C17_LiveFor(k) ==
  { n \in 1..Len(yielded) : ~C17_Yielded(n).skip /\ C17_Yielded(n).key = k }

C17_Last(S) == CHOOSE n \in S : \A m \in S : m <= n

\* The table holds the keys of the backfill and of the live lines; a key a
\* live line resolved to has the enabled and connection of the last such
\* line, any other key has its backfilled record.
C17_Table ==
  /\ DictKeys(statuses) =
       DictKeys(initial) \cup
       { C17_Yielded(n).key : n \in { m \in 1..Len(yielded) : ~C17_Yielded(m).skip } }
  /\ \A k \in DictKeys(statuses) :
       IF C17_LiveFor(k) # {}
       THEN /\ DictGet(statuses, k).enabled
                 = C17_Yielded(C17_Last(C17_LiveFor(k))).rec.enabled
            /\ DictGet(statuses, k).connection
                 = C17_Yielded(C17_Last(C17_LiveFor(k))).rec.connection
       ELSE DictGet(statuses, k) = DictGet(initial, k)

\* A yielded line is the line of its file at its index, and follows the line
\* yielded before it when both come from the same open of the file.
C17_InOrder ==
  LineStep =>
    /\ files[yielded'[Len(yielded')].file].content[yielded'[Len(yielded')].idx]
         = StepLine
    /\ (yielded # << >>
        /\ yielded[Len(yielded)].open = yielded'[Len(yielded')].open) =>
         /\ yielded'[Len(yielded')].file = yielded[Len(yielded)].file
         /\ yielded'[Len(yielded')].idx = yielded[Len(yielded)].idx + 1

C17_Step ==
  /\ C17_InOrder
  /\ (C16_Startup /\ initial' # << >>) => C16_LatestOf(initial', C16_Tail)

\* C17: the lines of a file are processed in file order, the backfill keeps
\* for each key the record of the last tail line resolving to it, and after
\* any number of live lines every stored key has the enabled and connection
\* of the most recently processed status line that resolved to it.
C17_LatestWins == []C17_Table /\ [][C17_Step]_vars

\* A key was backfilled as enabled, then two live lines for it were read in
\* file order, "disabled" and "enabled": it is stored as enabled.
C17_LiveOverBackfill ==
  /\ Len(initial) = 1
  /\ initial[1].val.enabled
  /\ YieldedLines = <<LineId(L_AlphaMgcOff), LineId(L_AlphaMgcOn)>>
  /\ statuses = initial
  /\ Len(notices) = 2

\* A field as the publisher sends it.
C18_Sent(field) == IF field = << >> THEN <<"E", "M", "P", "T", "Y">> ELSE field

\* The upsert of a change.
C18_Payload(rec) ==
  [strategy_name |-> rec.name,
   instrument |-> C18_Sent(rec.instrument),
   enabled |-> rec.enabled,
   connection |-> C18_Sent(rec.connection)]

\* This step is a live line that declares a change.
C18_ChangeStep ==
  LineStep /\ ~StepStatus.skip /\ C11_Differs(StepStatus)

C18_Step ==
  /\ C18_ChangeStep => published' = Append(published, C18_Payload(StepStatus.rec))
  /\ ~C18_ChangeStep => published' = published
  /\ Len(published') = Len(notices')
  /\ published' # published =>
       /\ notices'[Len(notices')].name = StepStatus.rec.name
       /\ notices'[Len(notices')].enabled = StepStatus.rec.enabled

C19_FileIs(snapshot, d) ==
  /\ snapshot.exists
  /\ snapshot.data.strategies = SortedValues(d)

C19_Step ==
  /\ C18_ChangeStep =>
       /\ json_writes' = json_writes + 1
       /\ DictHas(statuses', StepStatus.key)
       /\ DictGet(statuses', StepStatus.key) = StepStatus.rec
       /\ Len(published') = Len(published) + 1
       /\ pc' = "tail"
       /\ status_json' = status_json \/ C19_FileIs(status_json', statuses')
  /\ status_json' # status_json =>
       /\ C18_ChangeStep \/ C16_Startup
       /\ C19_FileIs(status_json', statuses')
       /\ status_json'.data.updated_at = now
  /\ (~C18_ChangeStep /\ ~C16_Startup) =>
       UNCHANGED <<statuses, status_json, json_writes>>

\* C19: a failing snapshot write of a change leaves the file as it was, and
\* the change is still stored and handed to the publisher and the loop goes
\* on; the file is written by change events (and the startup step) only, a
\* poll that declares no change does not rewrite it; every write that
\* succeeds puts the serialization of the whole table into the file, so the
\* file equals the table again after the next change whose write succeeds.
C19_WriteFailure == [][C19_Step]_vars

\* The write of the only change so far failed: the table and the publisher
\* have the change, the file still has the empty initial snapshot.
C19_StaleFile ==
  /\ pc = "tail"
  /\ json_writes = 2
  /\ Len(notices) = 1
  /\ Len(published) = 1
  /\ Len(statuses) = 1
  /\ status_json.exists
  /\ status_json.data.strategies = << >>

\* Line l is empty, or fails the allow-list, or matches no pattern, or has
\* no name after completion.
C20_Skipped(l) ==
  \/ LOG_LINES[l] = << >>
  \/ match_strategies # << >> /\ ~RequiresAnyOf[match_strategies][l]
  \/ /\ ~LineStatusOf[pattern_set][l].raised
     /\ LineStatusOf[pattern_set][l].status.name = << >>

C20_Step ==
  (LineStep /\ C20_Skipped(StepLine)) =>
    UNCHANGED <<statuses, status_json, json_writes, notices, published,
                emails, attempts, last_email_time>>

\* No stored record, backfilled or live, has an empty name.
C20_NoEmptyName ==
  \A i \in 1..Len(statuses) :
    statuses[i].key[1] # << >> /\ statuses[i].val.name # << >>

\* C20: a live line that is empty, or contains none of the substrings of a
\* non-empty allow-list (compared in lower case), or matches no enable or
\* disable pattern, or has an empty name after completion, leaves the table,
\* the snapshot file and the last-email time unchanged and causes no publish
\* call; no record with an empty name is ever stored.
C20_SkippedLines == []C20_NoEmptyName /\ [][C20_Step]_vars

\* An empty line, a line that matches no pattern and a line whose name is
\* trimmed to nothing were yielded, and nothing was stored or written for them.
C20_ThreeSkipped ==
  /\ YieldedLines = <<LineId(L_Empty), LineId(L_Noise), LineId(L_DashOn)>>
  /\ initial = << >>
  /\ statuses = << >>
  /\ json_writes = 1
  /\ published = << >>
  /\ attempts = << >>

\* The cursor has delivered line i of file f.
C21_Delivered(f, i) ==
  \E n \in 1..Len(yielded) : yielded[n].file = f /\ yielded[n].idx = i

\* C21: in a run with a single log file of which the backfill read a tail,
\* every line appended to the file after that read, and that the cursor is
\* already past, has been delivered by the cursor: the cursor starts where
\* the backfill ended.
C21_NoGap ==
  (/\ dir = {"log.1.txt"}
   /\ tail_read >= 1
   /\ fh.file = "log.1.txt") =>
    \A i \in (tail_read + 1)..fh.pos : C21_Delivered("log.1.txt", i)

\* The n-th line the cursor yielded is a whole line of its file: it starts
\* at the start of the file or right after a terminator, holds no
\* terminator, and the character after it is a terminator.
C22_WholeLine(n) ==
  /\ \/ yielded[n].idx = 0
     \/ files[yielded[n].file].content[yielded[n].idx] = "\n"
  /\ "\n" \notin Range(yielded[n].line)
  /\ yielded[n].idx + Len(yielded[n].line) + 1
       <= Len(files[yielded[n].file].content)
  /\ files[yielded[n].file].content[yielded[n].idx + Len(yielded[n].line) + 1]
       = "\n"

\* C22: whatever the writes a line reaches the file in, every line the
\* cursor yields is a whole line of the file.
C22_WholeLinesOnly == \A n \in 1..Len(yielded) : C22_WholeLine(n)
====
